---- MODULE Spec2Model ----
(***************************************************************************)
(* LEM (Lurk Evaluation Model): the Func/Block/Op/Ctrl intermediate        *)
(* representation, its interpreter, the static slot count and the          *)
(* constraint synthesizer of src/src/lem/circuit.rs, together with the     *)
(* batch synthesis of src/src/lem/multiframe.rs.                            *)
(*                                                                         *)
(* Field elements are pairs <<kind, payload>>: <<"F", n>> is the residue   *)
(* n, <<"H4", pre>>, <<"H6", pre>>, <<"H8", pre>>, <<"H3", pre>> are the   *)
(* images of the fixed-arity hashes (collision resistant: a term is equal  *)
(* only to itself), <<"S", name>> is the content hash of an interned       *)
(* symbol.  Arithmetic on residues is modulo P; arithmetic that involves a *)
(* hash image stays symbolic.                                              *)
(*                                                                         *)
(* Modelled Ops: Null, Lit, Cons2/3/4, Decons2/3/4, Cast, EqTag, EqVal,    *)
(* Not, And, Or, Add, Sub, Mul, Div, Lt, DivRem64, Emit, Hide, Open,      *)
(* Call, Cproc.                                                            *)
(***************************************************************************)
EXTENDS Integers, Sequences, FiniteSets, TLC

\* Let([v \in {e} |-> body]) is body with v bound to the value of e: the
\* value is computed once, as a Rust let binding computes it
Let(f) == f[CHOOSE v \in DOMAIN f : TRUE]

\* ------------------------------------------------------------------------
\* Field and tags
\* ------------------------------------------------------------------------
P == 8191

Fe(n) == <<"F", n % P>>
ZERO == Fe(0)
ONE == Fe(1)

IsNum(x) == x[1] = "F"

FAdd(a, b) == IF IsNum(a) /\ IsNum(b) THEN Fe(a[2] + b[2]) ELSE <<"add", <<a, b>>>>
FSub(a, b) == IF IsNum(a) /\ IsNum(b) THEN Fe(a[2] + P - b[2]) ELSE <<"sub", <<a, b>>>>
FMul(a, b) == IF IsNum(a) /\ IsNum(b) THEN Fe(a[2] * b[2]) ELSE <<"mul", <<a, b>>>>
\* a times the inverse of b; b is not zero
FDiv(a, b) ==
  IF IsNum(a) /\ IsNum(b) THEN Fe(CHOOSE q \in 0..(P - 1) : (q * b[2]) % P = a[2])
  ELSE <<"div", <<a, b>>>>

\* least significant bit of the canonical representative
Lsb(a) == IF IsNum(a) THEN a[2] % 2 = 1 ELSE FALSE
\* the width of a u64, scaled to the field as 64 is to the width of the
\* repository's field: the product of two of them, plus a third, is below P
U64Bits == 6
\* to_u64_unchecked: the low limb of the canonical representative
to_u64_unchecked(a) == IF IsNum(a) THEN a[2] % (2 ^ U64Bits) ELSE 0

ExprTags == {"Nil", "Cons", "Sym", "Fun", "Num", "Thunk", "Str", "Char", "Comm", "U64", "Key"}
ContTags == {"Outermost", "Tail", "Error", "Terminal", "Dummy", "Let", "LetRec"}
CtrlTags == {"Return", "MakeThunk", "ApplyContinuation"}

to_field(tag) ==
  CASE tag = "Nil" -> Fe(0)
    [] tag = "Cons" -> Fe(1)
    [] tag = "Sym" -> Fe(2)
    [] tag = "Fun" -> Fe(3)
    [] tag = "Num" -> Fe(4)
    [] tag = "Thunk" -> Fe(5)
    [] tag = "Str" -> Fe(6)
    [] tag = "Char" -> Fe(7)
    [] tag = "Comm" -> Fe(8)
    [] tag = "U64" -> Fe(9)
    [] tag = "Key" -> Fe(10)
    [] tag = "Outermost" -> Fe(4096)
    [] tag = "Tail" -> Fe(4106)
    [] tag = "Error" -> Fe(4109)
    [] tag = "Terminal" -> Fe(4110)
    [] tag = "Dummy" -> Fe(4108)
    [] tag = "Let" -> Fe(4102)
    [] tag = "LetRec" -> Fe(4103)
    [] tag = "Return" -> Fe(4200)
    [] tag = "MakeThunk" -> Fe(4201)
    [] tag = "ApplyContinuation" -> Fe(4202)
    [] tag = "Call0" -> Fe(4097)
    [] tag = "Call" -> Fe(4098)
    [] tag = "Call2" -> Fe(4099)
    [] tag = "Lookup" -> Fe(4100)
    [] tag = "Unop" -> Fe(4101)
    [] tag = "Binop" -> Fe(4104)
    [] tag = "Binop2" -> Fe(4105)
    [] tag = "If" -> Fe(4107)
    [] tag = "Emit" -> Fe(4111)
    [] tag = "Car" -> Fe(2048)
    [] tag = "Cdr" -> Fe(2049)
    [] tag = "Atom" -> Fe(2050)
    [] tag = "Open" -> Fe(2051)
    [] tag = "Secret" -> Fe(2052)
    [] tag = "Commit" -> Fe(2053)
    [] tag = "Eval" -> Fe(2054)
    [] tag = "Begin" -> Fe(3072)
    [] tag = "Sum" -> Fe(3073)
    [] tag = "Diff" -> Fe(3074)
    [] tag = "Product" -> Fe(3075)
    [] tag = "Quotient" -> Fe(3076)
    [] tag = "Modulo" -> Fe(3077)
    [] tag = "NumEqual" -> Fe(3078)
    [] tag = "Equal" -> Fe(3079)
    [] tag = "Less" -> Fe(3080)
    [] tag = "Greater" -> Fe(3081)
    [] tag = "LessEqual" -> Fe(3082)
    [] tag = "GreaterEqual" -> Fe(3083)
    [] tag = "StrCons" -> Fe(3084)
    [] tag = "Hide" -> Fe(3085)

\* ------------------------------------------------------------------------
\* Pointers in hashed form (ZPtr): tag and content hash
\* ------------------------------------------------------------------------
ZPtr(tag, val) == [tag |-> to_field(tag), val |-> val]
tag_field(z) == z.tag

Hash4(pre) == <<"H4", pre>>
Hash6(pre) == <<"H6", pre>>
Hash8(pre) == <<"H8", pre>>
Hash3(pre) == <<"H3", pre>>

Zeros(n) == [i \in 1..n |-> ZERO]

\* ZPtr::dummy()
ZDummy == ZPtr("Nil", ZERO)

\* Ptr::null(tag): the zero-hash shim for the four null continuations
IsNullCont(tag) == tag \in {"Outermost", "Error", "Dummy", "Terminal"}
NullVal(tag) == IF IsNullCont(tag) THEN Hash8(Zeros(8)) ELSE ZERO
PNull(tag) == ZPtr(tag, NullVal(tag))
PNum(n) == ZPtr("Num", Fe(n))
PChar(n) == ZPtr("Char", Fe(n))
PSym(name) == ZPtr("Sym", <<"S", name>>)

\* preimage of a tuple of pointers: tag and hash of each component
RECURSIVE Components(_)
Components(ptrs) ==
  IF ptrs = << >> THEN << >>
  ELSE <<tag_field(Head(ptrs)), Head(ptrs).val>> \o Components(Tail(ptrs))

PCons2(tag, a, b) == ZPtr(tag, Hash4(Components(<<a, b>>)))
PCons3(tag, a, b, c) == ZPtr(tag, Hash6(Components(<<a, b, c>>)))
PCons4(tag, a, b, c, d) == ZPtr(tag, Hash8(Components(<<a, b, c, d>>)))

\* ------------------------------------------------------------------------
\* The intermediate representation: Op, Ctrl, Block, Func
\* ------------------------------------------------------------------------
OpNull(tgt, tag) == [op |-> "Null", tgt |-> tgt, tag |-> tag]
OpLit(tgt, lit) == [op |-> "Lit", tgt |-> tgt, lit |-> lit]
OpCons2(img, tag, preimg) == [op |-> "Cons2", img |-> img, tag |-> tag, preimg |-> preimg]
OpCons3(img, tag, preimg) == [op |-> "Cons3", img |-> img, tag |-> tag, preimg |-> preimg]
OpCons4(img, tag, preimg) == [op |-> "Cons4", img |-> img, tag |-> tag, preimg |-> preimg]
OpDecons2(preimg, img) == [op |-> "Decons2", preimg |-> preimg, img |-> img]
OpDecons3(preimg, img) == [op |-> "Decons3", preimg |-> preimg, img |-> img]
OpDecons4(preimg, img) == [op |-> "Decons4", preimg |-> preimg, img |-> img]
OpCast(tgt, tag, src) == [op |-> "Cast", tgt |-> tgt, tag |-> tag, src |-> src]
OpEqTag(tgt, a, b) == [op |-> "EqTag", tgt |-> tgt, a |-> a, b |-> b]
OpEqVal(tgt, a, b) == [op |-> "EqVal", tgt |-> tgt, a |-> a, b |-> b]
OpNot(tgt, a) == [op |-> "Not", tgt |-> tgt, a |-> a]
OpAnd(tgt, a, b) == [op |-> "And", tgt |-> tgt, a |-> a, b |-> b]
OpOr(tgt, a, b) == [op |-> "Or", tgt |-> tgt, a |-> a, b |-> b]
OpAdd(tgt, a, b) == [op |-> "Add", tgt |-> tgt, a |-> a, b |-> b]
OpSub(tgt, a, b) == [op |-> "Sub", tgt |-> tgt, a |-> a, b |-> b]
OpMul(tgt, a, b) == [op |-> "Mul", tgt |-> tgt, a |-> a, b |-> b]
OpDiv(tgt, a, b) == [op |-> "Div", tgt |-> tgt, a |-> a, b |-> b]
OpLt(tgt, a, b) == [op |-> "Lt", tgt |-> tgt, a |-> a, b |-> b]
OpEmit(a) == [op |-> "Emit", a |-> a]
OpDivRem64(tgt, a, b) == [op |-> "DivRem64", tgt |-> tgt, a |-> a, b |-> b]
OpHide(tgt, sec, pay) == [op |-> "Hide", tgt |-> tgt, sec |-> sec, pay |-> pay]
OpOpen(sec, pay, comm) == [op |-> "Open", sec |-> sec, pay |-> pay, comm |-> comm]
OpCproc(out, sym, inp) == [op |-> "Cproc", out |-> out, sym |-> sym, inp |-> inp]
OpCall(out, func, inp) == [op |-> "Call", out |-> out, func |-> func, inp |-> inp]

Return(vars) == [ctrl |-> "Return", vars |-> vars]
If(b, t, f) == [ctrl |-> "If", b |-> b, t |-> t, f |-> f]
\* cases: sequence of <<tag or symbol, Block>>; def: << >> or <<Block>>
MatchTag(v, cases, def) == [ctrl |-> "MatchTag", v |-> v, cases |-> cases, def |-> def]
MatchSymbol(v, cases, def) == [ctrl |-> "MatchSymbol", v |-> v, cases |-> cases, def |-> def]
\* if x == y { t } f and if x != y { t } f: only the hashes are compared
IfEq(x, y, t, f) == [ctrl |-> "IfEq", x |-> x, y |-> y, t |-> t, f |-> f]
IfNotEq(x, y, t, f) == [ctrl |-> "IfNotEq", x |-> x, y |-> y, t |-> t, f |-> f]

Block(ops, ctrl) == [ops |-> ops, ctrl |-> ctrl]
Func(name, input_params, output_size, body) ==
  [name |-> name, input_params |-> input_params, output_size |-> output_size, body |-> body]

\* ------------------------------------------------------------------------
\* Slots
\* ------------------------------------------------------------------------
SlotTypes == <<"Hash4", "Hash6", "Hash8", "Commitment", "BitDecomp">>

preimg_size(typ) ==
  CASE typ = "Hash4" -> 4
    [] typ = "Hash6" -> 6
    [] typ = "Hash8" -> 8
    [] typ = "Commitment" -> 3
    [] typ = "BitDecomp" -> 1

SlotsCounter(h4, h6, h8, cm, bd) ==
  [Hash4 |-> h4, Hash6 |-> h6, Hash8 |-> h8, Commitment |-> cm, BitDecomp |-> bd]
SlotsDefault == SlotsCounter(0, 0, 0, 0, 0)

Max2(a, b) == IF a >= b THEN a ELSE b

\* SlotsCounter::max
SlotsMax(a, b) == [t \in DOMAIN a |-> Max2(a[t], b[t])]
\* SlotsCounter::add
SlotsAdd(a, b) == [t \in DOMAIN a |-> a[t] + b[t]]

\* SlotsCounter::fold_max
RECURSIVE fold_max(_, _)
fold_max(a, vs) == IF vs = << >> THEN a ELSE fold_max(SlotsMax(a, Head(vs)), Tail(vs))

\* SlotsCounter::consume_*: the index returned is the counter before the bump
consume(next_slot, typ) == [next_slot EXCEPT ![typ] = @ + 1]

\* slots one Op uses by itself (a Call uses its callee's count)
OpSlots(op) ==
  CASE op.op \in {"Cons2", "Decons2"} -> SlotsCounter(1, 0, 0, 0, 0)
    [] op.op \in {"Cons3", "Decons3"} -> SlotsCounter(0, 1, 0, 0, 0)
    [] op.op \in {"Cons4", "Decons4"} -> SlotsCounter(0, 0, 1, 0, 0)
    [] op.op \in {"Hide", "Open"} -> SlotsCounter(0, 0, 0, 1, 0)
    [] op.op = "Lt" -> SlotsCounter(0, 0, 0, 0, 3)
    [] OTHER -> SlotsDefault

\* Block::count_slots: sum along a sequence, maximum across branches
RECURSIVE count_slots(_)
RECURSIVE count_slots_ops(_)
RECURSIVE count_slots_cases(_)
count_slots_ops(ops) ==
  IF ops = << >> THEN SlotsDefault
  ELSE SlotsAdd(IF Head(ops).op = "Call" THEN count_slots(Head(ops).func.body)
                ELSE OpSlots(Head(ops)),
                count_slots_ops(Tail(ops)))
count_slots_cases(cases) ==
  IF cases = << >> THEN SlotsDefault
  ELSE SlotsMax(count_slots(Head(cases)[2]), count_slots_cases(Tail(cases)))
count_slots(block) ==
  SlotsAdd(count_slots_ops(block.ops),
    CASE block.ctrl.ctrl = "Return" -> SlotsDefault
      [] block.ctrl.ctrl \in {"If", "IfEq", "IfNotEq"} ->
           SlotsMax(count_slots(block.ctrl.t), count_slots(block.ctrl.f))
      [] OTHER -> SlotsMax(count_slots_cases(block.ctrl.cases),
                           IF block.ctrl.def = << >> THEN SlotsDefault
                           ELSE count_slots(block.ctrl.def[1])))

\* ------------------------------------------------------------------------
\* The Funcs under analysis
\* ------------------------------------------------------------------------
IO3 == <<"expr_in", "env_in", "cont_in">>

\* lem/mod.rs, accepts_virtual_nested_match_tag
nested_match_tag ==
  Func("nested_match_tag", IO3, 3,
    Block(<< >>, MatchTag("expr_in", <<
      <<"Num", Block(<<OpNull("cont_out_terminal", "Terminal")>>,
                     Return(<<"expr_in", "env_in", "cont_out_terminal">>))>>,
      <<"Char", Block(<< >>, MatchTag("expr_in", <<
          <<"Num", Block(<<OpNull("cont_out_error", "Error")>>,
                         Return(<<"env_in", "expr_in", "cont_out_error">>))>> >>, << >>))>>,
      <<"Sym", Block(<< >>, MatchTag("expr_in", <<
          <<"Char", Block(<< >>, Return(<<"cont_in", "cont_in", "cont_in">>))>> >>, << >>))>>
      >>, << >>)))

HashPrelude ==
  << OpCons2("x", "Cons", <<"expr_in", "env_in">>),
     OpCons3("y", "Cons", <<"expr_in", "env_in", "cont_in">>),
     OpCons4("z", "Cons", <<"expr_in", "env_in", "cont_in", "cont_in">>),
     OpNull("t", "Terminal"),
     OpNull("p", "Nil") >>

HashBranch ==
  << OpCons2("m", "Cons", <<"env_in", "expr_in">>),
     OpCons3("n", "Cons", <<"cont_in", "env_in", "expr_in">>),
     OpCons4("k", "Cons", <<"expr_in", "cont_in", "env_in", "expr_in">>) >>

UnhashBranch ==
  << OpDecons2(<<"m1", "m2">>, "m"),
     OpDecons3(<<"n1", "n2", "n3">>, "n"),
     OpDecons4(<<"k1", "k2", "k3", "k4">>, "k") >>

\* lem/mod.rs, test_hash_slots
hash_slots ==
  Func("hash_slots", IO3, 3,
    Block(HashPrelude, MatchTag("expr_in", <<
      <<"Num", Block(HashBranch, Return(<<"m", "n", "t">>))>>,
      <<"Char", Block(<< >>, Return(<<"p", "p", "t">>))>>,
      <<"Cons", Block(<< >>, Return(<<"p", "p", "t">>))>>,
      <<"Nil", Block(<< >>, Return(<<"p", "p", "t">>))>> >>, << >>)))

\* lem/mod.rs, test_unhash_nested_slots (the trailing return is repeated in
\* each branch of the nested match, a Block ending in exactly one Ctrl)
unhash_nested_slots ==
  Func("unhash_nested_slots", IO3, 3,
    Block(HashPrelude, MatchTag("expr_in", <<
      <<"Num", Block(HashBranch \o UnhashBranch, MatchTag("cont_in", <<
          <<"Outermost", Block(<< OpCons2("a", "Cons", <<"env_in", "expr_in">>),
                                  OpCons3("b", "Cons", <<"cont_in", "env_in", "expr_in">>),
                                  OpCons4("c", "Cons", <<"expr_in", "cont_in", "env_in", "expr_in">>) >>,
                               Return(<<"m", "n", "t">>))>>,
          <<"Cons", Block(<< OpCons2("d", "Cons", <<"env_in", "expr_in">>),
                             OpCons3("e", "Cons", <<"cont_in", "env_in", "expr_in">>),
                             OpCons4("f", "Cons", <<"expr_in", "cont_in", "env_in", "expr_in">>) >>,
                          Return(<<"m", "n", "t">>))>> >>, << >>))>>,
      <<"Char", Block(<< >>, Return(<<"p", "p", "t">>))>>,
      <<"Cons", Block(<< >>, Return(<<"p", "p", "p">>))>>,
      <<"Nil", Block(<< >>, Return(<<"p", "p", "p">>))>> >>, << >>)))

\* lem/eval.rs, safe_uncons
safe_uncons ==
  Func("safe_uncons", <<"xs">>, 2,
    Block(<< >>, MatchTag("xs", <<
      <<"Nil", Block(<< >>, Return(<<"xs", "xs">>))>>,
      <<"Cons", Block(<<OpDecons2(<<"car", "cdr">>, "xs")>>, Return(<<"car", "cdr">>))>>,
      <<"Str", Block(<<OpDecons2(<<"car1", "cdr1">>, "xs")>>, Return(<<"car1", "cdr1">>))>> >>,
      << >>)))

\* lem/eval.rs, make_thunk (without the ctrl input: three pointers in, three out,
\* so that the Func can be chained as a step function)
make_thunk ==
  Func("make_thunk", <<"expr", "env", "cont">>, 3,
    Block(<< >>, MatchTag("cont", <<
      <<"Tail", Block(<< OpDecons2(<<"saved_env", "saved_cont">>, "cont"),
                         OpCons2("thunk", "Thunk", <<"expr", "saved_cont">>),
                         OpNull("dcont", "Dummy") >>,
                      Return(<<"thunk", "saved_env", "dcont">>))>>,
      <<"Outermost", Block(<<OpNull("tcont", "Terminal")>>,
                           Return(<<"expr", "env", "tcont">>))>> >>,
      << Block(<< >>, Return(<<"expr", "env", "cont">>)) >>)))

\* lem/eval.rs, choose_let_cont, with a default that keeps the continuation
choose_let_cont ==
  Func("choose_let_cont", <<"head", "var", "cont">>, 3,
    Block(<< >>, MatchSymbol("head", <<
      <<"let", Block(<<OpCons4("lcont", "Let", <<"var", "head", "var", "cont">>)>>,
                     Return(<<"head", "var", "lcont">>))>>,
      <<"letrec", Block(<<OpCons4("rcont", "LetRec", <<"var", "head", "var", "cont">>)>>,
                        Return(<<"head", "var", "rcont">>))>> >>,
      << Block(<< >>, Return(<<"head", "var", "cont">>)) >>)))

\* boolean Ops and nested Ifs: no Op of it uses a number
bool_ops ==
  Func("bool_ops", <<"a", "b", "c">>, 3,
    Block(<< OpEqTag("same_tag", "a", "b"),
             OpEqVal("same_val", "a", "b"),
             OpAnd("same", "same_tag", "same_val"),
             OpNot("differ", "same"),
             OpEqTag("bc", "b", "c"),
             OpOr("any", "differ", "bc") >>,
      If("same",
         Block(<< >>, Return(<<"b", "c", "c">>)),
         Block(<< >>, If("any",
            Block(<<OpCons2("pair", "Cons", <<"a", "b">>)>>, Return(<<"pair", "c", "c">>)),
            Block(<< >>, Return(<<"a", "b", "c">>)))))))

\* lem/eval.rs, extract_arg-like callee used through Op::Call, once on each
\* side of a match, and a second callee called from inside the first
swap_pair ==
  Func("swap_pair", <<"sa", "sb">>, 1,
    Block(<<OpCons2("sw", "Cons", <<"sb", "sa">>)>>, Return(<<"sw">>)))

first_or_self ==
  Func("first_or_self", <<"xs", "alt">>, 2,
    Block(<< >>, MatchTag("xs", <<
      <<"Cons", Block(<< OpDecons2(<<"car", "cdr">>, "xs"),
                         OpCall(<<"both">>, swap_pair, <<"car", "cdr">>) >>,
                      Return(<<"car", "both">>))>> >>,
      << Block(<< >>, Return(<<"xs", "alt">>)) >>)))

call_ops ==
  Func("call_ops", IO3, 3,
    Block(<< OpCall(<<"h", "r">>, first_or_self, <<"expr_in", "env_in">>) >>,
      MatchTag("h", <<
        <<"Num", Block(<< OpCall(<<"h2", "r2">>, first_or_self, <<"r", "cont_in">>) >>,
                       Return(<<"h2", "r2", "cont_in">>))>>,
        <<"Cons", Block(<< OpCons3("tri", "Cons", <<"h", "r", "cont_in">>) >>,
                        Return(<<"tri", "env_in", "cont_in">>))>> >>,
        << Block(<< >>, Return(<<"h", "r", "cont_in">>)) >>)))

\* arithmetic, comparison and commitments
num_ops ==
  Func("num_ops", <<"a", "b", "c">>, 3,
    Block(<< >>, MatchTag("a", <<
      <<"Num", Block(<< OpCast("bn", "Num", "b"),
                        OpAdd("sum", "a", "bn"),
                        OpSub("dif", "a", "bn"),
                        OpMul("prd", "sum", "dif"),
                        OpLt("less", "a", "bn"),
                        OpEmit("prd") >>,
                     If("less",
                        Block(<< OpHide("com", "a", "c") >>, Return(<<"com", "sum", "c">>)),
                        Block(<< OpLit("two", PNum(2)) >>, Return(<<"prd", "two", "c">>))))>>,
      <<"Comm", Block(<< OpOpen("sec", "pay", "a") >>, Return(<<"sec", "pay", "c">>))>> >>,
      << Block(<< >>, Return(<<"a", "b", "c">>)) >>)))

Funcs ==
  << nested_match_tag, hash_slots, unhash_nested_slots, safe_uncons, make_thunk,
     choose_let_cont, bool_ops, call_ops, num_ops >>

FuncIds == 1..Len(Funcs)

\* Func::new stores the static slot count of the body in the Func
slot(func) == count_slots(func.body)

\* ------------------------------------------------------------------------
\* Interpreter: Func::call / Block::run, producing a Frame with its Hints
\* ------------------------------------------------------------------------
None == [some |-> FALSE]
Some(d) == [some |-> TRUE, data |-> d]

PtrVec(ptrs) == [k |-> "PtrVec", ptrs |-> ptrs]
FPtr(f, ptr) == [k |-> "FPtr", f |-> f, ptr |-> ptr]
SlotF(a) == [k |-> "F", f |-> a]

HintsEmpty ==
  [Hash4 |-> << >>, Hash6 |-> << >>, Hash8 |-> << >>, Commitment |-> << >>,
   BitDecomp |-> << >>, call_outputs |-> << >>, cproc_outputs |-> << >>, trace |-> << >>]

Bind(env, var, val) == (var :> val) @@ env

RECURSIVE BindMany(_, _, _)
BindMany(env, vars, vals) ==
  IF vars = << >> \/ vals = << >> THEN env
  ELSE BindMany(Bind(env, Head(vars), Head(vals)), Tail(vars), Tail(vals))

Bound(env, vars) == \A i \in DOMAIN vars : vars[i] \in DOMAIN env
GetMany(env, vars) == [i \in DOMAIN vars |-> env[vars[i]]]
IsPtr(x) == x \notin BOOLEAN

\* pointers of a preimage: component 2i-1 is the tag, 2i the hash
PtrsOf(pre) == [i \in 1..(Len(pre) \div 2) |-> [tag |-> pre[2 * i - 1], val |-> pre[2 * i]]]

\* record the hint of op in the next slot of its type; trace remembers which
\* Op filled which slot index
PushHint(h, typ, d, op) ==
  [h EXCEPT ![typ] = Append(@, Some(d)),
            !.trace = Append(@, [typ |-> typ, idx |-> Len(h[typ]), op |-> op])]

\* pad the hints of each slot type up to n entries
PadTo(seq, n) == seq \o [i \in 1..(n - Len(seq)) |-> None]

IsNegative(a) == IsNum(a) /\ a[2] > (P - 1) \div 2
LtSigned(a, b) ==
  IF IsNegative(a) = IsNegative(b) THEN a[2] < b[2] ELSE IsNegative(a)

Fail(st) == [st EXCEPT !.ok = FALSE]

ConsHash(opname, pre) ==
  CASE opname \in {"Cons2", "Decons2"} -> Hash4(pre)
    [] opname \in {"Cons3", "Decons3"} -> Hash6(pre)
    [] opname \in {"Cons4", "Decons4"} -> Hash8(pre)

ConsSlot(opname) ==
  CASE opname \in {"Cons2", "Decons2"} -> "Hash4"
    [] opname \in {"Cons3", "Decons3"} -> "Hash6"
    [] opname \in {"Cons4", "Decons4"} -> "Hash8"

\* ------------------------------------------------------------------------
\* Coprocessors: the Lang maps a symbol to a coprocessor.  DumbCoprocessor is
\* the repository's: two arguments a and b, the result Num(a^2 + b), with a
\* circuit.  HintedCoprocessor evaluates alike and keeps the trait's default
\* has_circuit, false.
\* ------------------------------------------------------------------------
DumbCoprocessor == [name |-> "dumb", arity |-> 2, has_circuit |-> TRUE]
HintedCoprocessor == [name |-> "hinted", arity |-> 2, has_circuit |-> FALSE]

lang == [dumb |-> DumbCoprocessor, hinted |-> HintedCoprocessor]

\* Lang::lookup_by_sym: the coprocessor, or none
lookup_by_sym(sym) == IF sym \in DOMAIN lang THEN <<lang[sym]>> ELSE << >>

\* DumbCoprocessor::evaluate_lem_simple: Num(a^2 + b) of two Nums, a panic otherwise
evaluate_lem_simple(cproc, args) ==
  IF args[1].tag = to_field("Num") /\ args[2].tag = to_field("Num")
  THEN [ok |-> TRUE, out |-> ZPtr("Num", FAdd(FMul(args[1].val, args[1].val), args[2].val))]
  ELSE [ok |-> FALSE, out |-> ZDummy]

\* Coprocessor::evaluate_lem_internal: the arguments, then env and cont handed through
evaluate_lem_internal(cproc, ptrs) ==
  IF Len(ptrs) < cproc.arity + 2 THEN [ok |-> FALSE, out |-> << >>]
  ELSE     Let([r \in {evaluate_lem_simple(cproc, SubSeq(ptrs, 1, cproc.arity))} |->
          [ok |-> r.ok, out |-> <<r.out, ptrs[cproc.arity + 1], ptrs[cproc.arity + 2]>>]])

RECURSIVE run(_, _)
RECURSIVE run_ops(_, _)
RECURSIVE call(_, _, _)

\* one Op of Block::run on the state [ok, env, hints, out]
run_op(op, st) ==
      Let([env \in {st.env} |->
      Let([h \in {st.hints} |->
    
  CASE op.op = "Null" -> [st EXCEPT !.env = Bind(env, op.tgt, PNull(op.tag))]
    [] op.op = "Lit" -> [st EXCEPT !.env = Bind(env, op.tgt, op.lit)]
    [] op.op \in {"Cons2", "Cons3", "Cons4"} ->
         IF ~Bound(env, op.preimg) THEN Fail(st)
         ELSE     Let([ptrs \in {GetMany(env, op.preimg)} |->
                 [st EXCEPT !.env = Bind(env, op.img,
                                      [tag |-> to_field(op.tag),
                                       val |-> ConsHash(op.op, Components(ptrs))]),
                            !.hints = PushHint(h, ConsSlot(op.op), PtrVec(ptrs), op)]])
    [] op.op \in {"Decons2", "Decons3", "Decons4"} ->
         IF ~Bound(env, <<op.img>>) THEN Fail(st)
         ELSE     Let([img \in {env[op.img]} |->
                 IF img.val[1] # ConsHash(op.op, << >>)[1] THEN Fail(st)
                 ELSE     Let([ptrs \in {PtrsOf(img.val[2])} |->
                         [st EXCEPT !.env = BindMany(env, op.preimg, ptrs),
                                    !.hints = PushHint(h, ConsSlot(op.op), PtrVec(ptrs), op)]])])
    [] op.op = "Cast" ->
         IF ~Bound(env, <<op.src>>) THEN Fail(st)
         ELSE [st EXCEPT !.env = Bind(env, op.tgt,
                                   [tag |-> to_field(op.tag), val |-> env[op.src].val])]
    [] op.op = "EqTag" -> [st EXCEPT !.env = Bind(env, op.tgt, env[op.a].tag = env[op.b].tag)]
    [] op.op = "EqVal" -> [st EXCEPT !.env = Bind(env, op.tgt, env[op.a].val = env[op.b].val)]
    [] op.op = "Not" -> [st EXCEPT !.env = Bind(env, op.tgt, ~env[op.a])]
    [] op.op = "And" -> [st EXCEPT !.env = Bind(env, op.tgt, env[op.a] /\ env[op.b])]
    [] op.op = "Or" -> [st EXCEPT !.env = Bind(env, op.tgt, env[op.a] \/ env[op.b])]
    [] op.op \in {"Add", "Sub", "Mul"} ->
             Let([a \in {env[op.a].val} |->
             Let([b \in {env[op.b].val} |->
            IF ~(IsNum(a) /\ IsNum(b)) THEN Fail(st)
            ELSE [st EXCEPT !.env = Bind(env, op.tgt,
                    [tag |-> to_field("Num"),
                     val |-> CASE op.op = "Add" -> FAdd(a, b)
                               [] op.op = "Sub" -> FSub(a, b)
                               [] op.op = "Mul" -> FMul(a, b)])]])])
    [] op.op = "Div" ->
             Let([a \in {env[op.a].val} |->
             Let([b \in {env[op.b].val} |->
            IF ~(IsNum(a) /\ IsNum(b)) \/ b = ZERO THEN Fail(st)
            ELSE [st EXCEPT !.env = Bind(env, op.tgt,
                    [tag |-> to_field("Num"), val |-> FDiv(a, b)])]])])
    [] op.op = "Lt" ->
             Let([a \in {env[op.a].val} |->
             Let([b \in {env[op.b].val} |->
            IF ~(IsNum(a) /\ IsNum(b)) THEN Fail(st)
            ELSE [st EXCEPT !.env = Bind(env, op.tgt, LtSigned(a, b)),
                            !.hints = PushHint(PushHint(PushHint(h,
                                        "BitDecomp", SlotF(FAdd(a, a)), op),
                                        "BitDecomp", SlotF(FAdd(b, b)), op),
                                        "BitDecomp", SlotF(FAdd(FSub(a, b), FSub(a, b))), op)]])])
    [] op.op = "DivRem64" ->
             Let([a \in {env[op.a].val} |->
             Let([b \in {env[op.b].val} |->
            IF ~(IsNum(a) /\ IsNum(b)) \/ to_u64_unchecked(b) = 0 THEN Fail(st)
            ELSE [st EXCEPT !.env = BindMany(env, op.tgt,
                    <<[tag |-> to_field("Num"),
                       val |-> Fe(to_u64_unchecked(a) \div to_u64_unchecked(b))],
                      [tag |-> to_field("Num"),
                       val |-> Fe(to_u64_unchecked(a) % to_u64_unchecked(b))]>>)]])])
    [] op.op = "Emit" -> st
    [] op.op = "Hide" ->
             Let([sec \in {env[op.sec]} |->
             Let([pay \in {env[op.pay]} |->
            IF ~(sec.tag = to_field("Num") /\ IsNum(sec.val)) THEN Fail(st)
            ELSE [st EXCEPT !.env = Bind(env, op.tgt,
                                      [tag |-> to_field("Comm"),
                                       val |-> Hash3(<<sec.val, pay.tag, pay.val>>)]),
                            !.hints = PushHint(h, "Commitment", FPtr(sec.val, pay), op)]])])
    [] op.op = "Open" ->
             Let([comm \in {env[op.comm]} |->
            IF comm.val[1] # "H3" THEN Fail(st)
            ELSE     Let([pre \in {comm.val[2]} |->
                     Let([pay \in {[tag |-> pre[2], val |-> pre[3]]} |->
                    [st EXCEPT !.env = Bind(Bind(env, op.sec,
                                        [tag |-> to_field("Num"), val |-> pre[1]]), op.pay, pay),
                               !.hints = PushHint(h, "Commitment", FPtr(pre[1], pay), op)]])])])
    [] op.op = "Cproc" ->
         IF ~Bound(env, op.inp) \/ lookup_by_sym(op.sym) = << >> THEN Fail(st)
         ELSE     Let([res \in {evaluate_lem_internal(lookup_by_sym(op.sym)[1],
                                                       GetMany(env, op.inp))} |->
                 IF ~res.ok \/ Len(res.out) # Len(op.out) THEN Fail(st)
                 ELSE [st EXCEPT !.env = BindMany(env, op.out, res.out),
                                 !.hints = [h EXCEPT !.cproc_outputs = Append(@, res.out)]]])
    [] op.op = "Call" ->
         IF ~Bound(env, op.inp) THEN Fail(st)
         ELSE     Let([k \in {Len(h.call_outputs) + 1} |->
                  Let([res \in {call(op.func, GetMany(env, op.inp),
                                     [h EXCEPT !.call_outputs = Append(@, << >>)])} |->
                 IF ~res.ok THEN Fail(st)
                 ELSE [st EXCEPT !.env = BindMany(env, op.out, res.out),
                                 !.hints = [res.hints EXCEPT !.call_outputs[k] = res.out]]])])])])

run_ops(ops, st) ==
  IF ops = << >> \/ ~st.ok THEN st ELSE run_ops(Tail(ops), run_op(Head(ops), st))

\* a lookup that finds no case
FindCase_none(consts, matched, i) == 0

\* index of the first case whose constant equals the matched value, 0 if none
RECURSIVE FindCase(_, _, _)
FindCase(consts, matched, i) ==
  IF i > Len(consts) THEN 0
  ELSE IF consts[i] = matched THEN i ELSE FindCase(consts, matched, i + 1)

\* the field constants a match compares with: tag codes or symbol hashes
CaseConsts(ctrl) ==
  [i \in DOMAIN ctrl.cases |->
     IF ctrl.ctrl = "MatchTag" THEN to_field(ctrl.cases[i][1]) ELSE <<"S", ctrl.cases[i][1]>>]

run(block, st0) ==
      Let([st \in {run_ops(block.ops, st0)} |->
      Let([c \in {block.ctrl} |->
    
  IF ~st.ok THEN st
  ELSE CASE c.ctrl = "Return" ->
              IF Bound(st.env, c.vars) THEN [st EXCEPT !.out = GetMany(st.env, c.vars)]
              ELSE Fail(st)
         [] c.ctrl = "If" -> IF st.env[c.b] THEN run(c.t, st) ELSE run(c.f, st)
         [] c.ctrl = "IfEq" ->
              IF ~Bound(st.env, <<c.x, c.y>>) THEN Fail(st)
              ELSE IF st.env[c.x].val = st.env[c.y].val THEN run(c.t, st) ELSE run(c.f, st)
         [] c.ctrl = "IfNotEq" ->
              IF ~Bound(st.env, <<c.x, c.y>>) THEN Fail(st)
              ELSE IF st.env[c.x].val # st.env[c.y].val THEN run(c.t, st) ELSE run(c.f, st)
         [] c.ctrl \in {"MatchTag", "MatchSymbol"} ->
                  Let([ptr \in {st.env[c.v]} |->
                  Let([matched \in {IF c.ctrl = "MatchTag" THEN ptr.tag ELSE ptr.val} |->
                  Let([i \in {FindCase(CaseConsts(c), matched, 1)} |->
                 IF c.ctrl = "MatchSymbol" /\ ptr.tag # to_field("Sym") THEN Fail(st)
                 ELSE IF i > 0 THEN run(c.cases[i][2], st)
                 ELSE IF c.def # << >> THEN run(c.def[1], st)
                 ELSE Fail(st)])])])])])

\* Func::call: run the body on fresh bindings, then pad the hints of this
\* invocation up to the static slot count of the Func
call(func, inputs, h) ==
  IF Len(inputs) # Len(func.input_params) THEN [ok |-> FALSE, out |-> << >>, hints |-> h]
  ELSE
      Let([r \in {run(func.body, [ok |-> TRUE, env |-> BindMany(<< >>, func.input_params, inputs),
                                  hints |-> h, out |-> << >>])} |->
      Let([n \in {slot(func)} |->
     [ok |-> r.ok /\ Len(r.out) = func.output_size,
      out |-> r.out,
      hints |-> [t \in DOMAIN r.hints |->
                   IF t \in {"call_outputs", "cproc_outputs", "trace"} THEN r.hints[t]
                   ELSE PadTo(r.hints[t], Len(h[t]) + n[t])]]])])

MkFrame(input, output, hints, blank) ==
  [input |-> input, output |-> output, hints |-> hints, blank |-> blank]

\* Func::call_simple: a Frame, or no Frame when interpretation fails
call_simple(func, input) ==
      Let([r \in {call(func, input, HintsEmpty)} |->
     IF r.ok THEN <<MkFrame(input, r.out, r.hints, FALSE)>> ELSE << >>])

\* Frame::blank: Nil pointers in and out, every slot hint absent, no call hint
FrameBlank(func) ==
  MkFrame([i \in DOMAIN func.input_params |-> PNull("Nil")],
          [i \in 1..func.output_size |-> PNull("Nil")],
          [t \in DOMAIN HintsEmpty |->
             IF t \in {"call_outputs", "cproc_outputs", "trace"} THEN << >>
             ELSE [i \in 1..slot(func)[t] |-> None]],
          TRUE)

\* ------------------------------------------------------------------------
\* Constraint system and gadgets
\*
\* A synthesis state s carries the constraint system under construction
\* (aux: the assignment of every allocated variable, in allocation order;
\* cons: the enforced constraints, in order) and the bookkeeping of
\* Func::synthesize_frame.  A constraint records its kind, the variables it
\* wires (ids), its constant coefficients, the values assigned to those
\* variables, and the number n of R1CS constraints it stands for.
\* ------------------------------------------------------------------------
NumBits == 13

Num(id, v) == [id |-> id, v |-> v]
Alloc(s, v) == [s EXCEPT !.aux = Append(@, v)]
LastNum(s) == Num(Len(s.aux), s.aux[Len(s.aux)])
NthLast(s, k) == Num(Len(s.aux) - k, s.aux[Len(s.aux) - k])

\* allocate the values vs in order
AllocMany(s, vs) == [s EXCEPT !.aux = @ \o vs]

Enforce(s, kind, ids, consts, n) ==
  [s EXCEPT !.cons = Append(@, [kind |-> kind, ids |-> ids, consts |-> consts, n |-> n]),
            !.num_constraints = @ + n]

\* Boolean::Constant, Boolean::Is, Boolean::Not; v is the value of the Boolean
BConst(v) == [b |-> "Constant", id |-> 0, v |-> v]
BIs(num) == [b |-> "Is", id |-> num.id, v |-> num.v]
BNot(x) ==
  [b |-> IF x.b = "Is" THEN "Not" ELSE IF x.b = "Not" THEN "Is" ELSE "Constant",
   id |-> x.id, v |-> ~x.v]
Pol(x) == CASE x.b = "Is" -> 1 [] x.b = "Not" -> 2 [] x.b = "Constant" -> IF x.v THEN 3 ELSE 4

AllocatedPtr(tag, hash) == [tag |-> tag, hash |-> hash]

\* AllocatedBit::alloc: one variable and the constraint that it is boolean
AllocatedBit_alloc(s, v) ==
      Let([s1 \in {Alloc(s, v)} |->
     Enforce(s1, "boolean", <<Len(s1.aux)>>, << >>, 1)])

\* AllocatedPtr::alloc: two variables, no constraint
AllocatedPtr_alloc(s, z) == Alloc(Alloc(s, z.tag), z.val)
LastPtr(s) == AllocatedPtr(NthLast(s, 1), LastNum(s))

\* allocate_constant: one variable enforced equal to the constant
allocate_constant(s, f) ==
      Let([s1 \in {Alloc(s, f)} |->
     Enforce(s1, "constant", <<Len(s1.aux)>>, <<f>>, 1)])

implies_equal(s, premise, a, b) ==
  Enforce(s, "implies_equal", <<premise.id, Pol(premise), a.id, b.id>>, << >>, 1)

implies_equal_const(s, premise, a, f) ==
  Enforce(s, "implies_equal_const", <<premise.id, Pol(premise), a.id>>, <<f>>, 1)

implies_unequal_const(s, premise, a, f) ==
  Enforce(s, "implies_unequal_const", <<premise.id, Pol(premise), a.id>>, <<f>>, 1)

enforce_selector_with_premise(s, premise, selector) ==
  Enforce(s, "selector",
          <<premise.id, Pol(premise)>> \o [i \in DOMAIN selector |-> selector[i].id],
          << >>, 1)

implies_ptr_equal(s, premise, a, b) ==
  implies_equal(implies_equal(s, premise, a.tag, b.tag), premise, a.hash, b.hash)

\* binary gadgets that allocate their result: the result is LastNum
Gadget3(s, kind, a, b, v, n) ==
      Let([s1 \in {Alloc(s, v)} |->
     Enforce(s1, kind, <<a.id, b.id, Len(s1.aux)>>, << >>, n)])

alloc_equal(s, a, b) == Gadget3(s, "alloc_equal", a, b, a.v = b.v, 3)
add(s, a, b) == Gadget3(s, "add", a, b, FAdd(a.v, b.v), 1)
sub(s, a, b) == Gadget3(s, "sub", a, b, FSub(a.v, b.v), 1)
mul(s, a, b) == Gadget3(s, "mul", a, b, FMul(a.v, b.v), 1)
\* the quotient q with q * b = a
div_num(s, a, b) == Gadget3(s, "div", a, b, FDiv(a.v, b.v), 1)
\* a fresh bit that is set iff a is zero: the bit is LastNum
alloc_is_zero(s, a) ==
      Let([s1 \in {Alloc(s, a.v = ZERO)} |->
     Enforce(s1, "alloc_is_zero", <<a.id, Len(s1.aux)>>, << >>, 3)])
\* a fresh number that is a if the condition holds and b otherwise
pick(s, cond, a, b) ==
      Let([s1 \in {Alloc(s, IF cond.v THEN a.v ELSE b.v)} |->
     Enforce(s1, "pick", <<cond.id, Pol(cond), a.id, b.id, Len(s1.aux)>>, << >>, 1)])

\* Boolean::and / or / xor: a constant operand costs nothing and allocates
\* nothing; otherwise the result is a fresh bit with one constraint
BoolGadget(s, kind, a, b, v) ==
      Let([s1 \in {Alloc(s, v)} |->
     Enforce(s1, kind, <<a.id, Pol(a), b.id, Pol(b), Len(s1.aux)>>, << >>, 1)])

and_is_const(a, b) == a.b = "Constant" \/ b.b = "Constant"
and_const(a, b) ==
  IF a.b = "Constant" THEN (IF a.v THEN b ELSE BConst(FALSE))
  ELSE (IF b.v THEN a ELSE BConst(FALSE))

\* and(cs, a, b): the pair <<state, result>>
and(s, a, b) ==
  IF and_is_const(a, b) THEN <<s, and_const(a, b)>>
  ELSE     Let([s1 \in {BoolGadget(s, "and", a, b, a.v /\ b.v)} |->    <<s1, BIs(LastNum(s1))>>])

or(s, a, b) ==
      Let([s1 \in {BoolGadget(s, "or", a, b, a.v \/ b.v)} |->    <<s1, BIs(LastNum(s1))>>])

xor(s, a, b) ==
      Let([s1 \in {BoolGadget(s, "xor", a, b, a.v # b.v)} |->    <<s1, BIs(LastNum(s1))>>])

BitsOf(a) == [i \in 1..NumBits |-> IF IsNum(a) THEN (a[2] \div (2 ^ (i - 1))) % 2 = 1 ELSE FALSE]

\* the value of a Boolean (variable id with polarity pol) under assignment aux
BoolVal(aux, id, pol) ==
  CASE pol = 1 -> aux[id]
    [] pol = 2 -> ~aux[id]
    [] pol = 3 -> TRUE
    [] pol = 4 -> FALSE

\* is constraint c satisfied by the assignment aux
Satisfied(c, aux) ==
      Let([x \in {c.ids} |->   
  CASE c.kind = "boolean" -> aux[x[1]] \in BOOLEAN
    [] c.kind = "constant" -> aux[x[1]] = c.consts[1]
    [] c.kind = "implies_equal" -> BoolVal(aux, x[1], x[2]) => (aux[x[3]] = aux[x[4]])
    [] c.kind = "implies_equal_const" -> BoolVal(aux, x[1], x[2]) => (aux[x[3]] = c.consts[1])
    [] c.kind = "implies_unequal_const" -> BoolVal(aux, x[1], x[2]) => (aux[x[3]] # c.consts[1])
    [] c.kind = "selector" ->
         BoolVal(aux, x[1], x[2]) => (Cardinality({i \in 3..Len(x) : aux[x[i]]}) = 1)
    [] c.kind = "alloc_equal" -> aux[x[3]] = (aux[x[1]] = aux[x[2]])
    [] c.kind = "add" -> aux[x[3]] = FAdd(aux[x[1]], aux[x[2]])
    [] c.kind = "sub" -> aux[x[3]] = FSub(aux[x[1]], aux[x[2]])
    [] c.kind = "mul" -> aux[x[3]] = FMul(aux[x[1]], aux[x[2]])
    [] c.kind = "div" -> FMul(aux[x[3]], aux[x[2]]) = aux[x[1]]
    [] c.kind = "alloc_is_zero" -> aux[x[2]] = (aux[x[1]] = ZERO)
    [] c.kind = "pick" -> aux[x[5]] = IF BoolVal(aux, x[1], x[2]) THEN aux[x[3]] ELSE aux[x[4]]
    [] c.kind = "and" -> aux[x[5]] = (BoolVal(aux, x[1], x[2]) /\ BoolVal(aux, x[3], x[4]))
    [] c.kind = "or" -> aux[x[5]] = (BoolVal(aux, x[1], x[2]) \/ BoolVal(aux, x[3], x[4]))
    [] c.kind = "xor" -> aux[x[5]] = (BoolVal(aux, x[1], x[2]) # BoolVal(aux, x[3], x[4]))
    [] c.kind = "implies_u64" ->
         BoolVal(aux, x[1], x[2]) => (IsNum(aux[x[3]]) /\ aux[x[3]][2] < 2 ^ U64Bits)
    [] c.kind = "product_and_sum" -> FAdd(FMul(aux[x[1]], aux[x[2]]), aux[x[3]]) = aux[x[4]]
    [] c.kind = "hash" ->
         aux[x[Len(x)]] = <<c.consts[1], [i \in 1..(Len(x) - 1) |-> aux[x[i]]]>>
    [] c.kind = "bits" ->
         [i \in 1..(Len(x) - 1) |-> aux[x[i + 1]]] = BitsOf(aux[x[1]])])

is_satisfied(cs) == \A i \in DOMAIN cs.cons : Satisfied(cs.cons[i], cs.aux)

\* cs.num_constraints()
cs_num_constraints(cs) == cs.num_constraints

\* the shape of a constraint system: everything but the assigned values
Shape(cs) == [naux |-> Len(cs.aux), cons |-> cs.cons]

\* ------------------------------------------------------------------------
\* Global constants: GlobalAllocator and Block::alloc_globals
\* ------------------------------------------------------------------------
SynthInit ==
  [aux |-> << >>, inputs |-> << >>, cons |-> << >>, num_constraints |-> 0, g |-> << >>, env |-> << >>, err |-> "",
   slots |-> [t \in {SlotTypes[i] : i \in DOMAIN SlotTypes} |-> << >>],
   next_slot |-> SlotsDefault, call_idx |-> 0, nctrl |-> 0, outs |-> << >>, advice |-> << >>,
   bodies |-> << >>, matches |-> << >>, returns |-> << >>, consumed |-> << >>,
   ifs |-> << >>, ctrls |-> << >>, body_start |-> 0, replays |-> << >>]

Err(s) == [s EXCEPT !.err = IF @ = "" THEN "error" ELSE @]
Panic(s) == [s EXCEPT !.err = IF @ = "" THEN "panic" ELSE @]
\* GlobalAllocator::get_allocated_const on a value that was never allocated
NotFound(s) == [s EXCEPT !.err = IF @ = "" THEN "Global allocation not found" ELSE @]

\* GlobalAllocator::new_const: allocate unless already cached
new_const(s, f) ==
  IF f \in DOMAIN s.g THEN s
  ELSE     Let([s1 \in {allocate_constant(s, f)} |->
          [s1 EXCEPT !.g = (f :> LastNum(s1)) @@ s.g]])

RECURSIVE new_consts(_, _)
new_consts(s, fs) ==
  IF fs = << >> \/ s.err # "" THEN s ELSE new_consts(new_const(s, Head(fs)), Tail(fs))

\* as OpGlobals, but a literal allocates its tag only and a division no one
OpGlobals_tags_only(op) ==
  CASE op.op \in {"Cons2", "Cons3", "Cons4", "Cast"} -> <<to_field(op.tag)>>
    [] op.op = "Lit" -> <<tag_field(op.lit)>>
    [] op.op = "Null" -> <<to_field(op.tag), NullVal(op.tag)>>
    [] op.op \in {"Not", "And", "Or", "Add", "Sub", "Mul", "Div", "Lt", "DivRem64"} -> <<to_field("Num")>>
    [] op.op \in {"Hide", "Open"} -> <<to_field("Num"), to_field("Comm")>>
    [] OTHER -> << >>

\* the constants Block::alloc_globals allocates for one Op
OpGlobals(op) ==
  CASE op.op \in {"Cons2", "Cons3", "Cons4", "Cast"} -> <<to_field(op.tag)>>
    [] op.op = "Lit" -> <<tag_field(op.lit), op.lit.val>>
    [] op.op = "Null" -> <<to_field(op.tag), NullVal(op.tag)>>
    [] op.op \in {"Not", "And", "Or", "Add", "Sub", "Mul", "Lt", "DivRem64"} -> <<to_field("Num")>>
    [] op.op = "Div" -> <<to_field("Num"), ONE>>
    [] op.op \in {"Hide", "Open"} -> <<to_field("Num"), to_field("Comm")>>
    [] OTHER -> << >>

RECURSIVE Block_alloc_globals(_, _)
RECURSIVE alloc_globals_ops(_, _)
RECURSIVE alloc_globals_cases(_, _)
alloc_globals_ops(ops, s) ==
  IF ops = << >> \/ s.err # "" THEN s
  ELSE alloc_globals_ops(Tail(ops),
         IF Head(ops).op = "Call" THEN Block_alloc_globals(Head(ops).func.body, s)
         ELSE new_consts(s, OpGlobals(Head(ops))))
alloc_globals_cases(cases, s) ==
  IF cases = << >> \/ s.err # "" THEN s
  ELSE alloc_globals_cases(Tail(cases), Block_alloc_globals(Head(cases)[2], s))
Block_alloc_globals(block, s0) ==
      Let([s \in {alloc_globals_ops(block.ops, s0)} |->
      Let([c \in {block.ctrl} |->
     CASE c.ctrl = "Return" -> s
       [] c.ctrl = "If" -> Block_alloc_globals(c.f, Block_alloc_globals(c.t, s))
       [] c.ctrl \in {"MatchTag", "MatchSymbol"} ->
                Let([s1 \in {IF c.ctrl = "MatchSymbol" THEN new_const(s, to_field("Sym")) ELSE s} |->
                Let([s2 \in {alloc_globals_cases(c.cases, s1)} |->
               IF c.def = << >> THEN s2 ELSE Block_alloc_globals(c.def[1], s2)])])])])

\* Func::alloc_globals
alloc_globals(func, s) == Block_alloc_globals(func.body, s)

\* ------------------------------------------------------------------------
\* allocate_slots and allocate_img_for_slot
\* ------------------------------------------------------------------------
Hash4Cost == 289
Hash6Cost == 337
Hash8Cost == 388
CommitmentCost == 265
BitDecompCost == 388

SlotCost(typ) ==
  CASE typ = "Hash4" -> Hash4Cost
    [] typ = "Hash6" -> Hash6Cost
    [] typ = "Hash8" -> Hash8Cost
    [] typ = "Commitment" -> CommitmentCost
    [] typ = "BitDecomp" -> BitDecompCost

HashName(typ) ==
  CASE typ = "Hash4" -> "H4"
    [] typ = "Hash6" -> "H6"
    [] typ = "Hash8" -> "H8"
    [] typ = "Commitment" -> "H3"

\* SlotType::is_compatible
is_compatible(typ, data) ==
  \/ typ \in {"Hash4", "Hash6", "Hash8"} /\ data.k = "PtrVec"
  \/ typ = "Commitment" /\ data.k = "FPtr"
  \/ typ = "BitDecomp" /\ data.k = "F"

\* the preimage values allocated for a slot with a hint
SlotDataValues(data) ==
  CASE data.k = "PtrVec" -> Components(data.ptrs)
    [] data.k = "FPtr" -> <<data.f, data.ptr.tag, data.ptr.val>>
    [] data.k = "F" -> <<data.f>>

\* the last k allocated variables, oldest first
LastNums(s, k) == [i \in 1..k |-> NthLast(s, k - i)]
NumIds(nums) == [i \in DOMAIN nums |-> nums[i].id]
NumVals(nums) == [i \in DOMAIN nums |-> nums[i].v]

\* allocate_img_for_slot: pair <<state, image>>
allocate_img_for_slot(s, typ, preimg) ==
  IF typ = "BitDecomp" THEN
        Let([bits \in {BitsOf(preimg[1].v)} |->
        Let([s1 \in {AllocMany(s, bits)} |->
        Let([nums \in {LastNums(s1, NumBits)} |->
        Let([s2 \in {Enforce(s1, "bits", <<preimg[1].id>> \o NumIds(nums), << >>, BitDecompCost)} |->
       <<s2, [i \in 1..NumBits |-> BIs(nums[i])]>>])])])])
  ELSE
        Let([img \in {<<HashName(typ), NumVals(preimg)>>} |->
        Let([s1 \in {Alloc(s, img)} |->
        Let([s2 \in {Enforce(s1, "hash", NumIds(preimg) \o <<Len(s1.aux)>>, <<HashName(typ)>>,
                             SlotCost(typ))} |->
       <<s2, LastNum(s1)>>])])])

\* as allocate_slot, but a slot without a hint is not allocated
allocate_slot_hinted_only(s, maybe_slot_data, typ) ==
  IF ~maybe_slot_data.some THEN s
  ELSE IF ~is_compatible(typ, maybe_slot_data.data) THEN Panic(s)
  ELSE
        Let([vals \in {SlotDataValues(maybe_slot_data.data)} |->
        Let([s1 \in {AllocMany(s, vals)} |->
        Let([preimg \in {LastNums(s1, Len(vals))} |->
        Let([r \in {allocate_img_for_slot(s1, typ, preimg)} |->
       [r[1] EXCEPT !.slots[typ] = Append(@, [preimg |-> preimg, img |-> r[2]])]])])])])

\* one slot of allocate_slots: the preimage from the hint, or zeros
allocate_slot(s, maybe_slot_data, typ) ==
  IF maybe_slot_data.some /\ ~is_compatible(typ, maybe_slot_data.data) THEN Panic(s)
  ELSE
        Let([vals \in {IF maybe_slot_data.some THEN SlotDataValues(maybe_slot_data.data)
                       ELSE Zeros(preimg_size(typ))} |->
        Let([s1 \in {AllocMany(s, vals)} |->
        Let([preimg \in {LastNums(s1, Len(vals))} |->
        Let([r \in {allocate_img_for_slot(s1, typ, preimg)} |->
       [r[1] EXCEPT !.slots[typ] = Append(@, [preimg |-> preimg, img |-> r[2]])]])])])])

RECURSIVE allocate_slots_loop(_, _, _)
allocate_slots_loop(s, slots_data, typ) ==
  IF slots_data = << >> \/ s.err # "" THEN s
  ELSE allocate_slots_loop(allocate_slot(s, Head(slots_data), typ), Tail(slots_data), typ)

allocate_slots(s, slots_data, typ, num_slots) ==
  IF s.err # "" THEN s
  ELSE IF Len(slots_data) # num_slots THEN Panic(s)
  ELSE allocate_slots_loop(s, slots_data, typ)

\* ------------------------------------------------------------------------
\* Func::synthesize_frame: the walk over the body (recurse)
\*
\* ctx is what recurse receives unchanged for a block: nd (not_dummy),
\* outs (preallocated_outputs), blank, call_outputs, and two labels kept for
\* the properties: body (which Func body instance the block belongs to) and
\* path (the branch taken at each enclosing Ctrl).
\* ------------------------------------------------------------------------
IsBoolVal(x) == "b" \in DOMAIN x
HasPtr(s, v) == v \in DOMAIN s.env /\ ~IsBoolVal(s.env[v])
HasBool(s, v) == v \in DOMAIN s.env /\ IsBoolVal(s.env[v])
HasPtrs(s, vs) == \A i \in DOMAIN vs : HasPtr(s, vs[i])
HasConst(s, f) == f \in DOMAIN s.g

\* the n pointers allocated right after variable number base
PtrsFrom(s, base, n) ==
  [i \in 1..n |-> AllocatedPtr(Num(base + 2 * i - 1, s.aux[base + 2 * i - 1]),
                               Num(base + 2 * i, s.aux[base + 2 * i]))]

\* next_slot.consume_*() used as an index into the preallocated slots
Consume(s, typ, ctx, op) ==
  IF s.next_slot[typ] >= Len(s.slots[typ]) THEN Panic(s)
  ELSE [s EXCEPT !.next_slot = consume(@, typ),
                 !.consumed = Append(@, [typ |-> typ, idx |-> s.next_slot[typ], op |-> op,
                                         premise |-> ctx.nd.v, path |-> ctx.path])]

RECURSIVE ImpliesPreimg(_, _, _, _, _)
\* as ImpliesPreimg, but a dummy branch emits nothing
ImpliesPreimg_only_concrete(s, nd, ptrs, pre, i) ==
  IF i > Len(ptrs) \/ ~nd.v THEN s
  ELSE ImpliesPreimg(
         implies_equal(implies_equal(s, nd, ptrs[i].tag, pre[2 * i - 1]),
                       nd, ptrs[i].hash, pre[2 * i]),
         nd, ptrs, pre, i + 1)

ImpliesPreimg(s, nd, ptrs, pre, i) ==
  IF i > Len(ptrs) THEN s
  ELSE ImpliesPreimg(
         implies_equal(implies_equal(s, nd, ptrs[i].tag, pre[2 * i - 1]),
                       nd, ptrs[i].hash, pre[2 * i]),
         nd, ptrs, pre, i + 1)

cons_helper(op, ctx, s) ==
  IF ~HasPtrs(s, op.preimg) THEN Err(s)
  ELSE
        Let([typ \in {ConsSlot(op.op)} |->
        Let([s1 \in {Consume(s, typ, ctx, op)} |->
       IF s1.err # "" THEN s1
       ELSE     Let([sl \in {s.slots[typ][s.next_slot[typ] + 1]} |->
                Let([s2 \in {ImpliesPreimg(s1, ctx.nd, GetMany(s.env, op.preimg), sl.preimg, 1)} |->
               IF ~HasConst(s2, to_field(op.tag)) THEN NotFound(s2)
               ELSE [s2 EXCEPT !.env = Bind(@, op.img,
                                           AllocatedPtr(s2.g[to_field(op.tag)], sl.img))]])])])])

\* as decons_helper, but the preimage of the slot is handed out without tying
\* the image of the slot to the pointer that is deconstructed
decons_helper_untied(op, ctx, s) ==
  IF ~HasPtr(s, op.img) THEN Err(s)
  ELSE
        Let([typ \in {ConsSlot(op.op)} |->
        Let([s1 \in {Consume(s, typ, ctx, op)} |->
       IF s1.err # "" THEN s1
       ELSE     Let([sl \in {s.slots[typ][s.next_slot[typ] + 1]} |->
                Let([ptrs \in {[i \in 1..(Len(sl.preimg) \div 2) |->
                                  AllocatedPtr(sl.preimg[2 * i - 1], sl.preimg[2 * i])]} |->
               [s1 EXCEPT !.env = BindMany(@, op.preimg, ptrs)]])])])])

decons_helper(op, ctx, s) ==
  IF ~HasPtr(s, op.img) THEN Err(s)
  ELSE
        Let([typ \in {ConsSlot(op.op)} |->
        Let([s1 \in {Consume(s, typ, ctx, op)} |->
       IF s1.err # "" THEN s1
       ELSE     Let([sl \in {s.slots[typ][s.next_slot[typ] + 1]} |->
                Let([s2 \in {implies_equal(s1, ctx.nd, s.env[op.img].hash, sl.img)} |->
                Let([ptrs \in {[i \in 1..(Len(sl.preimg) \div 2) |->
                                  AllocatedPtr(sl.preimg[2 * i - 1], sl.preimg[2 * i])]} |->
               [s2 EXCEPT !.env = BindMany(@, op.preimg, ptrs)]])])])])])

\* as synth_binop, but an operand that cannot be read is taken to be zero
synth_binop_default(op, ctx, s) ==
  [s EXCEPT !.env = Bind(@, op.tgt, AllocatedPtr(s.g[to_field("Num")], s.g[to_field("Num")]))]

synth_binop(op, ctx, s) ==
  IF ~(HasPtr(s, op.a) /\ HasPtr(s, op.b)) THEN Err(s)
  ELSE
        Let([a \in {s.env[op.a].hash} |->
        Let([b \in {s.env[op.b].hash} |->
        Let([s1 \in {CASE op.op = "Add" -> add(s, a, b)
                       [] op.op = "Sub" -> sub(s, a, b)
                       [] op.op = "Mul" -> mul(s, a, b)} |->
       IF ~HasConst(s1, to_field("Num")) THEN NotFound(s1)
       ELSE [s1 EXCEPT !.env = Bind(@, op.tgt,
                                   AllocatedPtr(s1.g[to_field("Num")], LastNum(s1)))]])])])

\* Op::Div: the divisor is replaced by one when it is zero
synth_div(op, ctx, s) ==
  IF ~(HasPtr(s, op.a) /\ HasPtr(s, op.b)) THEN Err(s)
  ELSE
        Let([a \in {s.env[op.a].hash} |->
        Let([b \in {s.env[op.b].hash} |->
        Let([s1 \in {alloc_is_zero(s, b)} |->
       IF ~HasConst(s1, ONE) THEN NotFound(s1)
       ELSE
        Let([s2 \in {pick(s1, BIs(LastNum(s1)), s1.g[ONE], b)} |->
        Let([s3 \in {div_num(s2, a, LastNum(s2))} |->
       IF ~HasConst(s3, to_field("Num")) THEN NotFound(s3)
       ELSE [s3 EXCEPT !.env = Bind(@, op.tgt,
                                   AllocatedPtr(s3.g[to_field("Num")], LastNum(s3)))]])])])])])

\* as synth_lt, but with different signs the result is the sign of b
synth_lt_b_negative(op, ctx, s) ==
  IF ~(HasPtr(s, op.a) /\ HasPtr(s, op.b)) THEN Err(s)
  ELSE
        Let([a \in {s.env[op.a].hash} |->
        Let([b \in {s.env[op.b].hash} |->
        Let([s1 \in {sub(s, a, b)} |->
        Let([diff \in {LastNum(s1)} |->
        Let([s2 \in {add(s1, a, a)} |->
        Let([double_a \in {LastNum(s2)} |->
        Let([s3 \in {add(s2, b, b)} |->
        Let([double_b \in {LastNum(s3)} |->
        Let([s4 \in {add(s3, diff, diff)} |->
        Let([double_diff \in {LastNum(s4)} |->
        Let([i0 \in {s.next_slot["BitDecomp"]} |->
        Let([s5 \in {Consume(Consume(Consume(s4, "BitDecomp", ctx, op), "BitDecomp", ctx, op),
                             "BitDecomp", ctx, op)} |->
       IF i0 + 3 > Len(s.slots["BitDecomp"]) THEN Panic(s4)
       ELSE
             Let([sa \in {s.slots["BitDecomp"][i0 + 1]} |->
             Let([sb \in {s.slots["BitDecomp"][i0 + 2]} |->
             Let([sd \in {s.slots["BitDecomp"][i0 + 3]} |->
             Let([s6 \in {implies_equal(s5, ctx.nd, double_a, sa.preimg[1])} |->
             Let([s7 \in {implies_equal(s6, ctx.nd, double_b, sb.preimg[1])} |->
             Let([s8 \in {implies_equal(s7, ctx.nd, double_diff, sd.preimg[1])} |->
             Let([a_is_negative \in {sa.img[1]} |->
             Let([b_is_negative \in {sb.img[1]} |->
             Let([diff_is_negative \in {sd.img[1]} |->
             Let([x \in {xor(s8, a_is_negative, b_is_negative)} |->
             Let([same_sign \in {BNot(x[2])} |->
             Let([and1 \in {and(x[1], same_sign, diff_is_negative)} |->
             Let([and2 \in {and(and1[1], BNot(same_sign), b_is_negative)} |->
             Let([lt \in {or(and2[1], and1[2], and2[2])} |->
            [lt[1] EXCEPT !.env = Bind(@, op.tgt, lt[2])]])])])])])])])])])])])])])])])])])])])])])])])])])])

synth_lt(op, ctx, s) ==
  IF ~(HasPtr(s, op.a) /\ HasPtr(s, op.b)) THEN Err(s)
  ELSE
        Let([a \in {s.env[op.a].hash} |->
        Let([b \in {s.env[op.b].hash} |->
        Let([s1 \in {sub(s, a, b)} |->
        Let([diff \in {LastNum(s1)} |->
        Let([s2 \in {add(s1, a, a)} |->
        Let([double_a \in {LastNum(s2)} |->
        Let([s3 \in {add(s2, b, b)} |->
        Let([double_b \in {LastNum(s3)} |->
        Let([s4 \in {add(s3, diff, diff)} |->
        Let([double_diff \in {LastNum(s4)} |->
        Let([i0 \in {s.next_slot["BitDecomp"]} |->
        Let([s5 \in {Consume(Consume(Consume(s4, "BitDecomp", ctx, op), "BitDecomp", ctx, op),
                             "BitDecomp", ctx, op)} |->
       IF i0 + 3 > Len(s.slots["BitDecomp"]) THEN Panic(s4)
       ELSE
             Let([sa \in {s.slots["BitDecomp"][i0 + 1]} |->
             Let([sb \in {s.slots["BitDecomp"][i0 + 2]} |->
             Let([sd \in {s.slots["BitDecomp"][i0 + 3]} |->
             Let([s6 \in {implies_equal(s5, ctx.nd, double_a, sa.preimg[1])} |->
             Let([s7 \in {implies_equal(s6, ctx.nd, double_b, sb.preimg[1])} |->
             Let([s8 \in {implies_equal(s7, ctx.nd, double_diff, sd.preimg[1])} |->
             Let([a_is_negative \in {sa.img[1]} |->
             Let([b_is_negative \in {sb.img[1]} |->
             Let([diff_is_negative \in {sd.img[1]} |->
             Let([x \in {xor(s8, a_is_negative, b_is_negative)} |->
             Let([same_sign \in {BNot(x[2])} |->
             Let([and1 \in {and(x[1], same_sign, diff_is_negative)} |->
             Let([and2 \in {and(and1[1], BNot(same_sign), a_is_negative)} |->
             Let([lt \in {or(and2[1], and1[2], and2[2])} |->
            [lt[1] EXCEPT !.env = Bind(@, op.tgt, lt[2])]])])])])])])])])])])])])])])])])])])])])])])])])])])

\* implies_u64: under the premise the number fits in U64Bits bits (the bits
\* and their packing are one constraint here)
implies_u64(s, premise, a) ==
  Enforce(s, "implies_u64", <<premise.id, Pol(premise), a.id>>, << >>, U64Bits + 1)

\* enforce_product_and_sum: a * b + c = sum
enforce_product_and_sum(s, a, b, c, sum) ==
  Enforce(s, "product_and_sum", <<a.id, b.id, c.id, sum.id>>, << >>, 1)

\* the values the synthesizer assigns to div and rem
div_rem(ctx, a, b) ==
  IF ctx.blank THEN <<ZERO, ZERO>>
  ELSE IF ctx.nd.v THEN <<Fe(to_u64_unchecked(a.v) \div to_u64_unchecked(b.v)),
                          Fe(to_u64_unchecked(a.v) % to_u64_unchecked(b.v))>>
  ELSE <<ZERO, a.v>>

\* Op::DivRem64.  s.advice, when given, is the pair a prover assigns to div and
\* rem in place of div_rem: the constraints are the same
synth_divrem64(op, ctx, s) ==
  IF ~(HasPtr(s, op.a) /\ HasPtr(s, op.b)) THEN Err(s)
  ELSE
        Let([a \in {s.env[op.a].hash} |->
        Let([b \in {s.env[op.b].hash} |->
       IF s.advice = << >> /\ ~ctx.blank /\ ctx.nd.v /\ to_u64_unchecked(b.v) = 0 THEN Panic(s)
       ELSE
             Let([qr \in {IF s.advice # << >> THEN s.advice ELSE div_rem(ctx, a, b)} |->
             Let([s1 \in {Alloc(s, qr[1])} |->
             Let([div \in {LastNum(s1)} |->
             Let([s2 \in {Alloc(s1, qr[2])} |->
             Let([rem \in {LastNum(s2)} |->
             Let([s3 \in {sub(s2, b, rem)} |->
             Let([diff \in {LastNum(s3)} |->
             Let([s4 \in {implies_u64(s3, ctx.nd, div)} |->
             Let([s5 \in {implies_u64(s4, ctx.nd, rem)} |->
             Let([s6 \in {implies_u64(s5, ctx.nd, diff)} |->
             Let([s7 \in {enforce_product_and_sum(s6, b, div, rem, a)} |->
            IF ~HasConst(s7, to_field("Num")) THEN NotFound(s7)
            ELSE [s7 EXCEPT !.env =
                    Bind(Bind(@, op.tgt[1], AllocatedPtr(s7.g[to_field("Num")], div)),
                         op.tgt[2], AllocatedPtr(s7.g[to_field("Num")], rem))]])])])])])])])])])])])])])

\* as synth_hide, but the tag of the secret is left unconstrained
synth_hide_any_secret(op, ctx, s) ==
  IF ~(HasPtr(s, op.sec) /\ HasPtr(s, op.pay)) THEN Err(s)
  ELSE
        Let([sec \in {s.env[op.sec]} |->
        Let([pay \in {s.env[op.pay]} |->
        Let([s1 \in {Consume(s, "Commitment", ctx, op)} |->
       IF s1.err # "" THEN s1
       ELSE     Let([sl \in {s.slots["Commitment"][s.next_slot["Commitment"] + 1]} |->
                Let([s3 \in {implies_equal(s1, ctx.nd, sec.hash, sl.preimg[1])} |->
                Let([s4 \in {implies_equal(s3, ctx.nd, pay.tag, sl.preimg[2])} |->
                Let([s5 \in {implies_equal(s4, ctx.nd, pay.hash, sl.preimg[3])} |->
               IF ~HasConst(s, to_field("Comm")) THEN NotFound(s5)
               ELSE [s5 EXCEPT !.env = Bind(@, op.tgt,
                                           AllocatedPtr(s.g[to_field("Comm")], sl.img))]])])])])])])])

synth_hide(op, ctx, s) ==
  IF ~(HasPtr(s, op.sec) /\ HasPtr(s, op.pay)) THEN Err(s)
  ELSE IF ~HasConst(s, to_field("Num")) THEN NotFound(s)
  ELSE
        Let([sec \in {s.env[op.sec]} |->
        Let([pay \in {s.env[op.pay]} |->
        Let([s1 \in {Consume(s, "Commitment", ctx, op)} |->
       IF s1.err # "" THEN s1
       ELSE     Let([sl \in {s.slots["Commitment"][s.next_slot["Commitment"] + 1]} |->
                Let([s2 \in {implies_equal(s1, ctx.nd, sec.tag, s.g[to_field("Num")])} |->
                Let([s3 \in {implies_equal(s2, ctx.nd, sec.hash, sl.preimg[1])} |->
                Let([s4 \in {implies_equal(s3, ctx.nd, pay.tag, sl.preimg[2])} |->
                Let([s5 \in {implies_equal(s4, ctx.nd, pay.hash, sl.preimg[3])} |->
               IF ~HasConst(s, to_field("Comm")) THEN NotFound(s5)
               ELSE [s5 EXCEPT !.env = Bind(@, op.tgt,
                                           AllocatedPtr(s.g[to_field("Comm")], sl.img))]])])])])])])])])

synth_open(op, ctx, s) ==
  IF ~HasPtr(s, op.comm) THEN Err(s)
  ELSE
        Let([comm \in {s.env[op.comm]} |->
        Let([s1 \in {Consume(s, "Commitment", ctx, op)} |->
       IF s1.err # "" THEN s1
       ELSE IF ~HasConst(s, to_field("Comm")) THEN NotFound(s1)
       ELSE     Let([sl \in {s.slots["Commitment"][s.next_slot["Commitment"] + 1]} |->
                Let([s2 \in {implies_equal(s1, ctx.nd, comm.tag, s.g[to_field("Comm")])} |->
                Let([s3 \in {implies_equal(s2, ctx.nd, comm.hash, sl.img)} |->
               IF ~HasConst(s, to_field("Num")) THEN NotFound(s3)
               ELSE [s3 EXCEPT !.env =
                       Bind(Bind(@, op.sec, AllocatedPtr(s.g[to_field("Num")], sl.preimg[1])),
                            op.pay, AllocatedPtr(sl.preimg[2], sl.preimg[3]))]])])])])])

RECURSIVE recurse(_, _, _)
RECURSIVE synth_ops(_, _, _)
RECURSIVE match_cases(_, _, _, _, _, _, _)
RECURSIVE ImpliesUnequal(_, _, _, _, _)
RECURSIVE ReturnLoop(_, _, _, _, _)

\* DumbCoprocessor::synthesize_lem_simple: a^2 + b with the tag Num; the tags
\* of the arguments are not looked at
synthesize_lem_simple(cproc, s, args) ==
      Let([s1 \in {mul(s, args[1].hash, args[1].hash)} |->
      Let([s2 \in {add(s1, LastNum(s1), args[2].hash)} |->
      Let([s3 \in {allocate_constant(s2, to_field("Num"))} |->
     [s |-> s3, out |-> AllocatedPtr(LastNum(s3), LastNum(s2))]])])])

\* CoCircuit::synthesize_lem_internal: the arguments, then env and cont handed through
synthesize_lem_internal(cproc, s, ptrs) ==
  IF Len(ptrs) < cproc.arity + 2 THEN [s |-> Panic(s), out |-> << >>]
  ELSE     Let([r \in {synthesize_lem_simple(cproc, s, SubSeq(ptrs, 1, cproc.arity))} |->
          [s |-> r.s, out |-> <<r.out, ptrs[cproc.arity + 1], ptrs[cproc.arity + 2]>>]])

\* a synthesized pointer differs from the pointer collected by interpretation
cproc_mismatch_tag_only(ptr, z_ptr) == ptr.tag.v # tag_field(z_ptr)

cproc_mismatch(ptr, z_ptr) == ptr.tag.v # tag_field(z_ptr) \/ ptr.hash.v # z_ptr.val

\* Op::Cproc with a circuit: compare each output on the concrete path, bind it
RECURSIVE cproc_bind(_, _, _, _, _, _)
cproc_bind(s, live, out, ptrs, z_ptrs, i) ==
  IF i > Len(out) THEN s
  ELSE IF live /\ cproc_mismatch(ptrs[i], z_ptrs[i]) THEN Err(s)
  ELSE cproc_bind([s EXCEPT !.env = Bind(@, out[i], ptrs[i])], live, out, ptrs, z_ptrs, i + 1)

\* Op::Cproc
synth_cproc(op, ctx, s0) ==
      Let([cproc \in {lookup_by_sym(op.sym)} |->
      Let([live \in {ctx.nd.v /\ ~ctx.blank} |->
      Let([s \in {IF live /\ cproc # << >> THEN [s0 EXCEPT !.replays = Append(@, ctx.cproc_idx + 1)]
                   ELSE s0} |->
  IF cproc = << >> THEN Err(s)
  ELSE IF live /\ ctx.cproc_idx + 1 > Len(ctx.cproc_outputs) THEN Panic(s)
  ELSE IF live /\ Len(op.out) # Len(ctx.cproc_outputs[ctx.cproc_idx + 1]) THEN Err(s)
  ELSE
        Let([collected_z_ptrs \in {IF live THEN ctx.cproc_outputs[ctx.cproc_idx + 1]
                                    ELSE [i \in DOMAIN op.out |-> ZDummy]} |->
       IF cproc[1].has_circuit
       THEN IF ~HasPtrs(s, op.inp) THEN Err(s)
            ELSE     Let([r \in {synthesize_lem_internal(cproc[1], s, GetMany(s.env, op.inp))} |->
                    IF r.s.err # "" THEN r.s
                    ELSE IF Len(op.out) # Len(r.out) THEN Err(r.s)
                    ELSE cproc_bind(r.s, live, op.out, r.out, collected_z_ptrs, 1)])
       ELSE     Let([s1 \in {AllocMany(s, Components(collected_z_ptrs))} |->
               [s1 EXCEPT !.env = BindMany(@, op.out,
                                           PtrsFrom(s1, Len(s.aux), Len(op.out)))]])])])])])

\* cproc_idx is a parameter of recurse: an Op::Cproc advances it for the Ops and
\* the Ctrl that follow in its block
cproc_next(ctx, op) == IF op.op = "Cproc" THEN [ctx EXCEPT !.cproc_idx = @ + 1] ELSE ctx

RECURSIVE cproc_after(_, _)
cproc_after(ctx, ops) ==
  IF ops = << >> THEN ctx ELSE cproc_after(cproc_next(ctx, Head(ops)), Tail(ops))

\* Op::Call: allocate the callee's outputs, bind its parameters, walk its body
\* as synth_call, but the hint is read on every path
synth_call_always_reads(op, ctx, s) ==
  IF s.call_idx + 1 > Len(ctx.call_outputs) THEN Panic(s)
  ELSE IF Len(ctx.call_outputs[s.call_idx + 1]) # Len(op.out) THEN Panic(s)
  ELSE
        Let([z_ptrs \in {ctx.call_outputs[s.call_idx + 1]} |->
        Let([s1 \in {AllocMany([s EXCEPT !.call_idx = @ + 1], Components(z_ptrs))} |->
        Let([output_ptrs \in {PtrsFrom(s1, Len(s.aux), Len(op.out))} |->
        Let([s2 \in {[s1 EXCEPT !.env = BindMany(@, op.out, output_ptrs)]} |->
       IF ~HasPtrs(s2, op.inp) THEN Err(s2)
       ELSE     Let([s3 \in {[s2 EXCEPT !.env = BindMany(@, op.func.input_params,
                                                         GetMany(s2.env, op.inp)),
                                        !.bodies = Append(@, [premise |-> ctx.nd.v])]} |->
               recurse(op.func.body,
                       [ctx EXCEPT !.outs = output_ptrs, !.body = Len(s3.bodies)], s3)])])])])])

synth_call(op, ctx, s) ==
      Let([live \in {ctx.nd.v /\ ~ctx.blank} |->   
  IF live /\ s.call_idx + 1 > Len(ctx.call_outputs) THEN Panic(s)
  ELSE IF live /\ Len(ctx.call_outputs[s.call_idx + 1]) # Len(op.out) THEN Panic(s)
  ELSE
        Let([z_ptrs \in {IF live THEN ctx.call_outputs[s.call_idx + 1]
                         ELSE [i \in DOMAIN op.out |-> ZDummy]} |->
        Let([s1 \in {AllocMany([s EXCEPT !.call_idx = IF live THEN @ + 1 ELSE @], Components(z_ptrs))} |->
        Let([output_ptrs \in {PtrsFrom(s1, Len(s.aux), Len(op.out))} |->
        Let([s2 \in {[s1 EXCEPT !.env = BindMany(@, op.out, output_ptrs)]} |->
       IF ~HasPtrs(s2, op.inp) THEN Err(s2)
       ELSE     Let([s3 \in {[s2 EXCEPT !.env = BindMany(@, op.func.input_params,
                                                         GetMany(s2.env, op.inp)),
                                        !.bodies = Append(@, [premise |-> ctx.nd.v])]} |->
               recurse(op.func.body,
                       [ctx EXCEPT !.outs = output_ptrs, !.body = Len(s3.bodies)], s3)])])])])])])

synth_op(op, ctx, s) ==
  CASE op.op = "Call" -> synth_call(op, ctx, s)
    [] op.op = "Cproc" -> synth_cproc(op, ctx, s)
    [] op.op \in {"Cons2", "Cons3", "Cons4"} -> cons_helper(op, ctx, s)
    [] op.op \in {"Decons2", "Decons3", "Decons4"} -> decons_helper(op, ctx, s)
    [] op.op = "Null" ->
         IF ~(HasConst(s, to_field(op.tag)) /\ HasConst(s, NullVal(op.tag))) THEN NotFound(s)
         ELSE [s EXCEPT !.env = Bind(@, op.tgt,
                                    AllocatedPtr(s.g[to_field(op.tag)], s.g[NullVal(op.tag)]))]
    [] op.op = "Lit" ->
         IF ~(HasConst(s, tag_field(op.lit)) /\ HasConst(s, op.lit.val)) THEN NotFound(s)
         ELSE [s EXCEPT !.env = Bind(@, op.tgt,
                                    AllocatedPtr(s.g[tag_field(op.lit)], s.g[op.lit.val]))]
    [] op.op = "Cast" ->
         IF ~HasPtr(s, op.src) THEN Err(s)
         ELSE IF ~HasConst(s, to_field(op.tag)) THEN NotFound(s)
         ELSE [s EXCEPT !.env = Bind(@, op.tgt,
                                    AllocatedPtr(s.g[to_field(op.tag)], s.env[op.src].hash))]
    [] op.op \in {"EqTag", "EqVal"} ->
         IF ~(HasPtr(s, op.a) /\ HasPtr(s, op.b)) THEN Err(s)
         ELSE     Let([s1 \in {IF op.op = "EqTag" THEN alloc_equal(s, s.env[op.a].tag, s.env[op.b].tag)
                               ELSE alloc_equal(s, s.env[op.a].hash, s.env[op.b].hash)} |->
                 [s1 EXCEPT !.env = Bind(@, op.tgt, BIs(LastNum(s1)))]])
    [] op.op = "Not" ->
         IF ~HasBool(s, op.a) THEN Err(s)
         ELSE [s EXCEPT !.env = Bind(@, op.tgt, BNot(s.env[op.a]))]
    [] op.op \in {"And", "Or"} ->
         IF ~(HasBool(s, op.a) /\ HasBool(s, op.b)) THEN Err(s)
         ELSE     Let([r \in {IF op.op = "And" THEN and(s, s.env[op.a], s.env[op.b])
                              ELSE or(s, s.env[op.a], s.env[op.b])} |->
                 [r[1] EXCEPT !.env = Bind(@, op.tgt, r[2])]])
    [] op.op \in {"Add", "Sub", "Mul"} -> synth_binop(op, ctx, s)
    [] op.op = "Div" -> synth_div(op, ctx, s)
    [] op.op = "Lt" -> synth_lt(op, ctx, s)
    [] op.op = "Emit" -> s
    [] op.op = "DivRem64" -> synth_divrem64(op, ctx, s)
    [] op.op = "Hide" -> synth_hide(op, ctx, s)
    [] op.op = "Open" -> synth_open(op, ctx, s)

synth_ops(ops, ctx, s) ==
  IF ops = << >> \/ s.err # "" THEN s
  ELSE synth_ops(Tail(ops), cproc_next(ctx, Head(ops)), synth_op(Head(ops), ctx, s))

\* as branch_slot, but a branch goes on from where the branch before it stopped
branch_slot_running(s, start) == s

\* let mut branch_slot = *next_slot: a branch starts from the counter at the
\* branch point, whatever the branches before it consumed
branch_slot(s, start) == [s EXCEPT !.next_slot = start]

\* the cases loop of synthesize_match; acc = [s, selector, branch_slots]
match_cases(consts, cases, i, matched, ctx, start, acc) ==
  IF i > Len(cases) \/ acc.s.err # "" THEN acc
  ELSE
        Let([s1 \in {AllocatedBit_alloc(acc.s, ctx.nd.v /\ matched.v = consts[i])} |->
        Let([not_dummy_and_has_match \in {BIs(LastNum(s1))} |->
        Let([s2 \in {implies_equal_const(s1, not_dummy_and_has_match, matched, consts[i])} |->
        Let([s3 \in {recurse(cases[i][2],
                             [ctx EXCEPT !.nd = not_dummy_and_has_match,
                                         !.path = Append(@, <<ctx.ctrl, i>>)],
                             branch_slot(s2, start))} |->
       match_cases(consts, cases, i + 1, matched, ctx, start,
                   [s |-> s3,
                    selector |-> Append(acc.selector, not_dummy_and_has_match),
                    branch_slots |-> Append(acc.branch_slots, s3.next_slot)])])])])])

ImpliesUnequal_none(s, is_default, matched, consts, i) == s

ImpliesUnequal(s, is_default, matched, consts, i) ==
  IF i > Len(consts) THEN s
  ELSE ImpliesUnequal(implies_unequal_const(s, is_default, matched, consts[i]),
                      is_default, matched, consts, i + 1)

\* as is_default_bool, but the case booleans are not looked at
is_default_bool_any(nd, selector) == nd.v

\* is_default_bool: not_dummy and no case boolean true
is_default_bool(nd, selector) == nd.v /\ \A i \in DOMAIN selector : ~selector[i].v

\* as match_next_slot, but the branches add up
match_next_slot_sum(next_slot, branch_slots) ==
  IF branch_slots = << >> THEN next_slot
  ELSE SlotsAdd(next_slot, fold_max(SlotsDefault, branch_slots))

\* *next_slot = next_slot.fold_max(branch_slots)
match_next_slot(next_slot, branch_slots) == fold_max(next_slot, branch_slots)

\* synthesize_match followed by the fold_max of the caller
synthesize_match(matched, consts, c, ctx0, s0) ==
      Let([s \in {[s0 EXCEPT !.nctrl = @ + 1]} |->
      Let([ctx \in {[ctx0 EXCEPT !.ctrl = s.nctrl]} |->
      Let([start \in {s.next_slot} |->
      Let([r \in {match_cases(consts, c.cases, 1, matched, ctx, start,
                              [s |-> s, selector |-> << >>, branch_slots |-> << >>])} |->
     IF r.s.err # "" THEN r.s
     ELSE
           Let([d \in {IF c.def = << >> THEN [s |-> branch_slot(r.s, start), selector |-> r.selector]
                       ELSE     Let([s1 \in {AllocatedBit_alloc(r.s, is_default_bool(ctx.nd, r.selector))} |->
                                Let([is_default \in {BIs(LastNum(s1))} |->
                                Let([s2 \in {ImpliesUnequal(s1, is_default, matched, consts, 1)} |->
                                Let([s3 \in {recurse(c.def[1],
                                                     [ctx EXCEPT !.nd = is_default,
                                                                 !.path = Append(@, <<ctx.ctrl, 0>>)],
                                                     branch_slot(s2, start))} |->
                               [s |-> s3, selector |-> Append(r.selector, is_default)]])])])])} |->
          IF d.s.err # "" THEN d.s
          ELSE     Let([s4 \in {enforce_selector_with_premise(d.s, ctx.nd, d.selector)} |->
                   Let([after \in {match_next_slot(d.s.next_slot, r.branch_slots)} |->
                  [s4 EXCEPT !.next_slot = after,
                             !.ctrls = Append(@,
                                [id |-> ctx.ctrl, start |-> start,
                                 ends |-> Append(r.branch_slots, d.s.next_slot),
                                 after |-> after]),
                             !.matches = Append(@,
                                [premise |-> ctx.nd.v, matched |-> matched.id,
                                 consts |-> consts, hasdef |-> c.def # << >>,
                                 selector |-> [i \in DOMAIN d.selector |-> d.selector[i].id],
                                 body |-> ctx.body])]])])])])])])])

ReturnLoop(s, nd, outs, vars, i) ==
  IF i > Len(vars) \/ s.err # "" THEN s
  ELSE IF ~HasPtr(s, vars[i]) THEN Err(s)
  ELSE IF i > Len(outs) THEN Panic(s)
  ELSE ReturnLoop(implies_ptr_equal(s, nd, s.env[vars[i]], outs[i]), nd, outs, vars, i + 1)

\* as synth_return, but the outputs are constrained whatever the premise
synth_return_unconditional(vars, ctx, s) ==
      Let([s1 \in {ReturnLoop(s, BConst(TRUE), ctx.outs, vars, 1)} |->
     [s1 EXCEPT !.returns = Append(@, [body |-> ctx.body, premise |-> ctx.nd.v,
                                       path |-> ctx.path])]])

\* Ctrl::Return: the returned Vars equal the preallocated outputs, under not_dummy
synth_return(vars, ctx, s) ==
      Let([s1 \in {ReturnLoop(s, ctx.nd, ctx.outs, vars, 1)} |->
     [s1 EXCEPT !.returns = Append(@, [body |-> ctx.body, premise |-> ctx.nd.v,
                                       path |-> ctx.path])]])

\* as if_premises, but the premise of the enclosing block is dropped
if_premises_cond_only(s, b, not_dummy) == <<s, b, BNot(b)>>

\* the premises of the two branches of an If: <<state, b_not_dummy, not_b_not_dummy>>
if_premises(s, b, not_dummy) ==
      Let([r1 \in {and(s, b, not_dummy)} |->
      Let([r2 \in {and(r1[1], BNot(b), not_dummy)} |->
     <<r2[1], r1[2], r2[2]>>])])

\* *next_slot = next_slot.max(branch_slot)
if_next_slot(next_slot, true_slot) == SlotsMax(next_slot, true_slot)

recurse(block, ctx0, s0) ==
      Let([s \in {synth_ops(block.ops, ctx0, s0)} |->
      Let([ctx \in {cproc_after(ctx0, block.ops)} |->
      Let([c \in {block.ctrl} |->
    
  IF s.err # "" THEN s
  ELSE CASE c.ctrl = "Return" -> synth_return(c.vars, ctx, s)
         [] c.ctrl = "If" ->
              IF ~HasBool(s, c.b) THEN Err(s)
              ELSE
                    Let([b \in {s.env[c.b]} |->
                    Let([pr \in {if_premises(s, b, ctx.nd)} |->
                    Let([sc \in {[pr[1] EXCEPT !.nctrl = @ + 1]} |->
                    Let([sT \in {recurse(c.t, [ctx EXCEPT !.nd = pr[2],
                                                          !.path = Append(@, <<sc.nctrl, 1>>)],
                                         branch_slot(sc, s.next_slot))} |->
                    Let([sF \in {recurse(c.f, [ctx EXCEPT !.nd = pr[3],
                                                          !.path = Append(@, <<sc.nctrl, 2>>)],
                                         branch_slot(sT, s.next_slot))} |->
                    Let([after \in {if_next_slot(sF.next_slot, sT.next_slot)} |->
                   IF sF.err # "" THEN sF
                   ELSE [sF EXCEPT !.next_slot = after,
                                   !.ctrls = Append(@,
                                      [id |-> sc.nctrl, start |-> s.next_slot,
                                       ends |-> <<sT.next_slot, sF.next_slot>>,
                                       after |-> after]),
                                   !.ifs = Append(@,
                                      [id |-> sc.nctrl, premise |-> ctx.nd.v, cond |-> b.v,
                                       t |-> pr[2].v, f |-> pr[3].v])]])])])])])])
         [] c.ctrl = "MatchTag" ->
              IF ~HasPtr(s, c.v) THEN Err(s)
              ELSE synthesize_match(s.env[c.v].tag, CaseConsts(c), c, ctx, s)
         [] c.ctrl = "MatchSymbol" ->
              IF ~HasPtr(s, c.v) THEN Err(s)
              ELSE     Let([s1 \in {synthesize_match(s.env[c.v].hash, CaseConsts(c), c, ctx, s)} |->
                      IF s1.err # "" THEN s1
                      ELSE IF ~HasConst(s1, to_field("Sym")) THEN NotFound(s1)
                      ELSE implies_equal(s1, ctx.nd, s.env[c.v].tag, s1.g[to_field("Sym")])])])])])

\* Func::allocate_output: one unconstrained pointer per output of the frame
allocate_output(func, frame, s) ==
  IF func.output_size # Len(frame.output) THEN Panic(s)
  ELSE     Let([s1 \in {AllocMany(s, Components(frame.output))} |->
          [s1 EXCEPT !.outs = PtrsFrom(s1, Len(s.aux), Len(frame.output))]])

\* Func::allocate_input: one unconstrained pointer per input, bound to its parameter
allocate_input(func, frame, s) ==
  IF Len(frame.input) > Len(func.input_params) THEN Panic(s)
  ELSE     Let([s1 \in {AllocMany(s, Components(frame.input))} |->
          [s1 EXCEPT !.env = BindMany(@, SubSeq(func.input_params, 1, Len(frame.input)),
                                      PtrsFrom(s1, Len(s.aux), Len(frame.input)))]])

RootCtx(frame, outs) ==
  [nd |-> BConst(TRUE), outs |-> outs, blank |-> frame.blank, body |-> 0,
   call_outputs |-> frame.hints.call_outputs, cproc_outputs |-> frame.hints.cproc_outputs,
   cproc_idx |-> 0, path |-> << >>, ctrl |-> 0]

\* Func::synthesize_frame: outputs, then the slots of each type, then the body
synthesize_frame(func, frame, s) ==
  IF s.err # "" THEN s
  ELSE
        Let([s0 \in {allocate_output(func, frame,
                       [s EXCEPT !.slots = SynthInit.slots, !.next_slot = SlotsDefault,
                                 !.call_idx = 0])} |->
        Let([s1 \in {allocate_slots(s0, frame.hints.Hash4, "Hash4", slot(func).Hash4)} |->
        Let([s2 \in {allocate_slots(s1, frame.hints.Hash6, "Hash6", slot(func).Hash6)} |->
        Let([s3 \in {allocate_slots(s2, frame.hints.Hash8, "Hash8", slot(func).Hash8)} |->
        Let([s4 \in {allocate_slots(s3, frame.hints.Commitment, "Commitment", slot(func).Commitment)} |->
        Let([s5 \in {allocate_slots(s4, frame.hints.BitDecomp, "BitDecomp", slot(func).BitDecomp)} |->
       IF s5.err # "" THEN s5
       ELSE recurse(func.body, RootCtx(frame, s5.outs),
                    [s5 EXCEPT !.body_start = Len(s5.aux)])])])])])])])

\* Func::synthesize_frame_aux: globals, inputs, then the frame
synthesize_frame_aux(func, frame) ==
  synthesize_frame(func, frame, allocate_input(func, frame, alloc_globals(func, SynthInit)))

\* ------------------------------------------------------------------------
\* Func::num_constraints
\* ------------------------------------------------------------------------
\* per-Op constraints counted by num_constraints
OpCost(op) ==
  CASE op.op \in {"EqTag", "EqVal"} -> 3
    [] op.op \in {"Add", "Sub", "Mul"} -> 1
    [] op.op = "Div" -> 5
    [] op.op = "Lt" -> 11
    [] op.op = "DivRem64" -> 3 * (U64Bits + 1) + 2
    [] op.op = "Cons2" -> 4
    [] op.op = "Cons3" -> 6
    [] op.op = "Cons4" -> 8
    [] op.op \in {"And", "Or", "Decons2", "Decons3", "Decons4"} -> 1
    [] op.op = "Hide" -> 4
    [] op.op = "Open" -> 2
    [] OTHER -> 0

\* the constants num_constraints inserts into its set of globals for one Op
OpCountedGlobals(op) ==
  CASE op.op \in {"Cons2", "Cons3", "Cons4", "Cast"} -> {to_field(op.tag)}
    [] op.op = "Null" -> {to_field(op.tag), NullVal(op.tag)}
    [] op.op = "Lit" -> {tag_field(op.lit), op.lit.val}
    [] op.op \in {"Add", "Sub", "Mul", "Lt", "DivRem64"} -> {to_field("Num")}
    [] op.op = "Div" -> {to_field("Num"), ONE}
    [] op.op \in {"Hide", "Open"} -> {to_field("Num"), to_field("Comm")}
    [] OTHER -> {}

RECURSIVE num_recurse(_, _, _)
RECURSIVE num_recurse_ops(_, _, _)
RECURSIVE num_cases(_, _)
\* acc = [n, globals]
num_recurse_ops(ops, acc, is_nested) ==
  IF ops = << >> THEN acc
  ELSE num_recurse_ops(Tail(ops),
         IF Head(ops).op = "Call" THEN num_recurse(Head(ops).func.body, acc, is_nested)
         ELSE [n |-> acc.n + OpCost(Head(ops)),
               globals |-> acc.globals \cup OpCountedGlobals(Head(ops))],
         is_nested)
num_cases(cases, acc) ==
  IF cases = << >> THEN acc
  ELSE num_cases(Tail(cases), num_recurse(Head(cases)[2], acc, TRUE))
num_recurse(block, acc0, is_nested) ==
      Let([acc \in {num_recurse_ops(block.ops, acc0, is_nested)} |->
      Let([c \in {block.ctrl} |->
     CASE c.ctrl = "Return" -> [acc EXCEPT !.n = @ + 2 * Len(c.vars)]
       [] c.ctrl = "If" ->
            num_recurse(c.f, num_recurse(c.t,
                [acc EXCEPT !.n = @ + (IF is_nested THEN 2 ELSE 0)], TRUE), TRUE)
       [] c.ctrl \in {"MatchTag", "MatchSymbol"} ->
                Let([a1 \in {IF c.ctrl = "MatchSymbol"
                             THEN [n |-> acc.n + 1, globals |-> acc.globals \cup {to_field("Sym")}]
                             ELSE acc} |->
                Let([a2 \in {num_cases(c.cases, [a1 EXCEPT !.n = @ + 2 * Len(c.cases) + 1])} |->
               IF c.def = << >> THEN a2
               ELSE num_recurse(c.def[1], [a2 EXCEPT !.n = @ + 1 + Len(c.cases)], TRUE)])])])])

slot_constraints(func) ==
  Hash4Cost * slot(func).Hash4 + Hash6Cost * slot(func).Hash6 + Hash8Cost * slot(func).Hash8
    + CommitmentCost * slot(func).Commitment + BitDecompCost * slot(func).BitDecomp

num_constraints(func) ==
      Let([r \in {num_recurse(func.body, [n |-> 0, globals |-> {}], FALSE)} |->
     slot_constraints(func) + r.n + Cardinality(r.globals)])

\* ------------------------------------------------------------------------
\* Batches of Frames: lem/multiframe.rs
\* ------------------------------------------------------------------------
\* Func::bind_input into a new BoundAllocations
bind_input(func, input, s) ==
  IF Len(input) # Len(func.input_params) THEN Panic(s)
  ELSE [s EXCEPT !.env = BindMany(<< >>, func.input_params, input)]

assert_eq_ptrs_aptrs(blank, ptrs, aptrs) ==
  /\ Len(ptrs) = Len(aptrs)
  /\ blank \/ \A i \in DOMAIN ptrs :
                 aptrs[i].tag.v = ptrs[i].tag /\ aptrs[i].hash.v = ptrs[i].val

\* the values of a vector of allocated pointers
PtrValues(aptrs) == [i \in DOMAIN aptrs |-> [tag |-> aptrs[i].tag.v, val |-> aptrs[i].hash.v]]

\* AllocatedNum::inputize: a public input with the value of the variable
inputize(s, num) == [s EXCEPT !.inputs = Append(@, num.v)]

RECURSIVE alloc_public_input(_, _)
alloc_public_input(s, ptrs) ==
  IF ptrs = << >> THEN s
  ELSE     Let([s1 \in {Alloc(s, Head(ptrs).tag)} |->
           Let([s2 \in {inputize(s1, LastNum(s1))} |->
           Let([s3 \in {Alloc(s2, Head(ptrs).val)} |->
           Let([s4 \in {inputize(s3, LastNum(s3))} |->
          IF s4.err # "" THEN s4 ELSE alloc_public_input(s4, Tail(ptrs))])])])])

\* the constraint system handed to both synthesize_frames_*: globals and input
BatchCS(func, input) ==
      Let([s0 \in {alloc_globals(func, SynthInit)} |->
     alloc_public_input(s0, input)])

\* the allocated input pointers: they follow the globals
BatchInput(func, input) ==
  PtrsFrom(BatchCS(func, input), Len(alloc_globals(func, SynthInit).aux), Len(input))

RECURSIVE synthesize_frames_sequential(_, _, _, _)
synthesize_frames_sequential(s, input, frames, func) ==
  IF frames = << >> \/ s.err # "" THEN [cs |-> s, output |-> input]
  ELSE
        Let([frame \in {Head(frames)} |->
        Let([s1 \in {synthesize_frame(func, frame, bind_input(func, input, s))} |->
       IF s1.err # "" THEN [cs |-> Panic(s1), output |-> input]
       ELSE IF Len(input) # Len(s1.outs)
               \/ ~assert_eq_ptrs_aptrs(frame.blank, frame.output, s1.outs)
       THEN [cs |-> Panic(s1), output |-> input]
       ELSE synthesize_frames_sequential(s1, s1.outs, Tail(frames), func)])])

\* one parallel task: a private WitnessCS for frame i
frame_task(s, input, frames, func, i) ==
      Let([frame \in {frames[i]} |->
      Let([frame_cs \in {[SynthInit EXCEPT !.g = s.g]} |->
      Let([fcs1 \in {IF i = 1 THEN frame_cs ELSE AllocMany(frame_cs, Components(frame.input))} |->
      Let([allocated_input \in {IF i = 1 THEN input ELSE PtrsFrom(fcs1, 0, Len(frame.input))} |->
      Let([s1 \in {synthesize_frame(func, frame, bind_input(func, allocated_input, fcs1))} |->
     IF s1.err # "" THEN Panic(s1)
     ELSE IF Len(allocated_input) # Len(s1.outs)
             \/ ~assert_eq_ptrs_aptrs(frame.blank, frame.output, s1.outs)
     THEN Panic(s1)
     ELSE s1])])])])])

\* the aux_slice of a partial witness from position start (0-based) on
AuxFrom(fcs, start) == SubSeq(fcs.aux, start + 1, Len(fcs.aux))

\* as aux_start, but the inputs allocated by a task are kept
aux_start_zero(i, input) == 0

\* where the part of frame i to keep starts: its allocated inputs are skipped
aux_start(i, input) == IF i = 1 THEN 0 ELSE Len(input) * 2

RECURSIVE extend_aux(_, _, _, _)
extend_aux(s, css, input, i) ==
  IF i > Len(css) THEN s
  ELSE     Let([start \in {aux_start(i, input)} |->
           Let([s1 \in {[s EXCEPT !.aux = @ \o AuxFrom(css[i], start),
                                  !.err = IF @ = "" THEN css[i].err ELSE @]} |->
          extend_aux(s1, css, input, i + 1)])])

synthesize_frames_parallel(s, input, frames, func) ==
      Let([css \in {[i \in DOMAIN frames |-> frame_task(s, input, frames, func, i)]} |->
      Let([s1 \in {extend_aux(s, css, input, 1)} |->
     [cs |-> s1,
      output |-> IF css = << >> THEN input ELSE css[Len(css)].outs]])])

\* what a WitnessCS keeps: the input and aux assignments, in order
Witness(s) == [inputs |-> s.inputs, aux |-> s.aux]

\* ------------------------------------------------------------------------
\* The state machine: one Func at a time is interpreted on an input, the
\* Frame is synthesized, the result compared with the previous synthesis of
\* the same Func and with num_constraints (lem/mod.rs, constrain_test_helper);
\* a prover may assign another witness to the selector of a match; a chain of
\* Frames is synthesized as a batch, sequentially and in parallel.
\* ------------------------------------------------------------------------
MaxFrames == 3

ConsPair == PCons2("Cons", PNum(3), PNull("Nil"))
TailCont == PCons2("Tail", PNull("Nil"), PNull("Outermost"))
CommPtr == ZPtr("Comm", Hash3(<<Fe(7), tag_field(PNum(3)), PNum(3).val>>))

MaxMatches == 6

ExprPtrs == {PNum(3), PChar(97), ConsPair, PSym("let"), PSym("foo"), CommPtr, PNull("Nil")}
ContPtrs == {PNull("Outermost"), TailCont, PNum(3), ConsPair}

\* the inputs tried for a Func, by its number of parameters
Inputs3 ==
  {<<e, PNum(3), k>> : e \in ExprPtrs, k \in ContPtrs}
    \cup {<<PNum(3), PNum(5), PNull("Outermost")>>, <<ConsPair, ConsPair, ConsPair>>,
          <<PCons2("Cons", PSym("foo"), PNull("Nil")), PNum(3), PNull("Outermost")>>}
Inputs(f) ==
  IF Len(f.input_params) = 1 THEN {<<e>> : e \in ExprPtrs} ELSE Inputs3

\* the inputs a batch starts from
BatchInputs ==
  {<<e, PNum(3), k>> : e \in {PNum(3), ConsPair, PSym("let")},
                       k \in {PNull("Outermost"), TailCont}}

\* a Func that can be chained: as many outputs as inputs
IsStep(f) == Len(f.input_params) = f.output_size

\* another Func with the same number of parameters
Other(i) == CHOOSE j \in FuncIds :
              /\ j # i
              /\ Len(Funcs[j].input_params) = Len(Funcs[i].input_params)
              /\ \A k \in FuncIds :
                    (k # i /\ Len(Funcs[k].input_params) = Len(Funcs[i].input_params))
                      => ((j - i) % Len(Funcs)) <= ((k - i) % Len(Funcs))
HasOther(i) == \E j \in FuncIds : j # i /\ Len(Funcs[j].input_params) = Len(Funcs[i].input_params)

\* the frames of at most n steps of func from input: each output is the next input
RECURSIVE Chain(_, _, _)
Chain(f, input, n) ==
  IF n = 0 THEN << >>
  ELSE     Let([fr \in {call_simple(f, input)} |->
          IF fr = << >> THEN << >> ELSE fr \o Chain(f, fr[1].output, n - 1)])

\* which Return of the walk had a true premise
Taken(s) == [i \in DOMAIN s.returns |-> s.returns[i].premise]

\* which Op consumed which slot, in the order of the walk
SlotUse(s) ==
  [i \in DOMAIN s.consumed |->
     [typ |-> s.consumed[i].typ, idx |-> s.consumed[i].idx, op |-> s.consumed[i].op,
      path |-> s.consumed[i].path]]

VARIABLES func, owner, frame, cs, cs_prev, predicted, tampered, batch, seq, par
\* generate_slots_witnesses at work: the flattened slots, the cache of dummy
\* witnesses, where each task stands, and what was collected
VARIABLES slots_data, dummy_witnesses_cache, task, parallel, slots_witnesses
\* what MultiFrame::from_frames made of the batch
VARIABLES multi_frames
\* one Func of LabFuncs at a time: the input it was interpreted on, the Frame
\* (none when interpretation failed), and its synthesis
VARIABLES lab_func, lab_input, lab_frame, lab_cs
\* the last Func construction: what was handed in and what came out
VARIABLES built
\* an evaluation by Lurk's step function: the state the last step was applied
\* to, what reduce made of it, the Frame of the step (none when interpretation
\* failed), and how many steps were taken
VARIABLES ev_input, ev_reduced, ev_frame, ev_steps
\* MultiFrame::from_frames, FoldingConfig::NIVC: the frames given, the loop's
\* position in them, the MultiFrames pushed so far, and where the call stands
VARIABLES nivc_frames, nivc_reduction_count, chunk_start_idx, nivc_multi_frames, nivc_status

synthvars == <<func, owner, frame, cs, cs_prev, predicted, tampered, batch, seq, par>>
slotvars == <<slots_data, dummy_witnesses_cache, task, parallel, slots_witnesses>>
mfvars == <<multi_frames>>
labvars == <<lab_func, lab_input, lab_frame, lab_cs>>
buildvars == <<built>>
evalvars == <<ev_input, ev_reduced, ev_frame, ev_steps>>
nivcvars ==
  <<nivc_frames, nivc_reduction_count, chunk_start_idx, nivc_multi_frames, nivc_status>>
others == <<slotvars, mfvars, labvars, buildvars, evalvars, nivcvars>>
vars == <<synthvars, others>>

Init ==
  /\ func = 1
  /\ owner = 0
  /\ frame = << >>
  /\ cs = << >>
  /\ cs_prev = << >>
  /\ predicted = -1
  /\ tampered = FALSE
  /\ batch = << >>
  /\ seq = << >>
  /\ par = << >>
  /\ slots_data = << >>
  /\ dummy_witnesses_cache = << >>
  /\ task = << >>
  /\ parallel = FALSE
  /\ slots_witnesses = << >>
  /\ multi_frames = << >>
  /\ lab_func = 0
  /\ lab_input = << >>
  /\ lab_frame = << >>
  /\ lab_cs = << >>
  /\ built = << >>
  /\ ev_input = << >>
  /\ ev_reduced = << >>
  /\ ev_frame = << >>
  /\ ev_steps = 0
  /\ nivc_frames = << >>
  /\ nivc_reduction_count = 1
  /\ chunk_start_idx = 0
  /\ nivc_multi_frames = << >>
  /\ nivc_status = "idle"

Idle == frame = << >> /\ cs = << >> /\ batch = << >>

\* take another Func under test
SelectFunc(i) ==
  /\ Idle
  /\ i # func
  /\ cs_prev = << >> \/ predicted = -1
  /\ func' = i
  /\ cs_prev' = << >>
  /\ predicted' = -1
  /\ UNCHANGED <<owner, frame, cs, tampered, batch, seq, par>>
  /\ UNCHANGED others

\* Func::call_simple on an input: a Frame, or none when interpretation fails
Interpret(input) ==
  /\ Idle
  /\ predicted # -1
  /\ call_simple(Funcs[func], input) # << >>
  /\ frame' = call_simple(Funcs[func], input)
  /\ owner' = func
  /\ UNCHANGED <<func, cs, cs_prev, predicted, tampered, batch, seq, par>>
  /\ UNCHANGED others

\* a Frame interpreted for another Func is handed to this one
InterpretOther(input) ==
  /\ Idle
  /\ predicted # -1
  /\ Len(input) = Len(Funcs[func].input_params)
  /\ HasOther(func)
  /\ call_simple(Funcs[Other(func)], input) # << >>
  /\ frame' = call_simple(Funcs[Other(func)], input)
  /\ owner' = Other(func)
  /\ UNCHANGED <<func, cs, cs_prev, predicted, tampered, batch, seq, par>>
  /\ UNCHANGED others

\* Frame::blank
MakeBlank ==
  /\ Idle
  /\ predicted # -1
  /\ frame' = <<FrameBlank(Funcs[func])>>
  /\ owner' = func
  /\ UNCHANGED <<func, cs, cs_prev, predicted, tampered, batch, seq, par>>
  /\ UNCHANGED others

\* Func::synthesize_frame_aux on a fresh constraint system
Synthesize ==
  /\ frame # << >>
  /\ cs = << >>
  /\ cs' = <<synthesize_frame_aux(Funcs[func], frame[1])>>
  /\ tampered' = FALSE
  /\ UNCHANGED <<func, owner, frame, cs_prev, predicted, batch, seq, par>>
  /\ UNCHANGED others

\* the prover assigns the selector of match k itself: the default, no case
Tamper(k) ==
  /\ cs # << >>
  /\ cs[1].err = ""
  /\ owner = func
  /\ ~frame[1].blank
  /\ ~tampered
  /\ k \in DOMAIN cs[1].matches
  /\ cs[1].matches[k].hasdef
  /\ LET sel == cs[1].matches[k].selector
         chosen == sel[Len(sel)]
     IN cs' = <<[cs[1] EXCEPT !.aux = [i \in DOMAIN @ |->
                    IF i = chosen THEN TRUE
                    ELSE IF \E j \in DOMAIN sel : sel[j] = i THEN FALSE
                    ELSE @[i]]]>>
  /\ tampered' = TRUE
  /\ UNCHANGED <<func, owner, frame, cs_prev, predicted, batch, seq, par>>
  /\ UNCHANGED others

\* keep the shape of this synthesis as cs_prev and drop the Frame
Next_frame ==
  /\ cs # << >>
  /\ cs_prev' = IF cs[1].err = "" /\ owner = func
                 THEN <<[shape |-> Shape(cs[1]), consumed |-> SlotUse(cs[1]),
                         taken |-> Taken(cs[1])]>>
                 ELSE cs_prev
  /\ frame' = << >>
  /\ cs' = << >>
  /\ owner' = 0
  /\ tampered' = FALSE
  /\ UNCHANGED <<func, predicted, batch, seq, par>>
  /\ UNCHANGED others

\* Func::num_constraints
NumConstraints ==
  /\ Idle
  /\ predicted = -1
  /\ predicted' = num_constraints(Funcs[func])
  /\ UNCHANGED <<func, owner, frame, cs, cs_prev, tampered, batch, seq, par>>
  /\ UNCHANGED others

\* evaluate at most n chained steps into a batch of Frames
MakeBatch(input, n) ==
  /\ Idle
  /\ cs_prev = << >>
  /\ predicted # -1
  /\ IsStep(Funcs[func])
  /\ batch' = <<[input |-> input, frames |-> Chain(Funcs[func], input, n)]>>
  /\ UNCHANGED <<func, owner, frame, cs, cs_prev, predicted, tampered, seq, par>>
  /\ UNCHANGED others

SynthesizeSequential ==
  /\ batch # << >>
  /\ seq = << >>
  /\ seq' = <<synthesize_frames_sequential(BatchCS(Funcs[func], batch[1].input),
                  BatchInput(Funcs[func], batch[1].input), batch[1].frames, Funcs[func])>>
  /\ UNCHANGED <<func, owner, frame, cs, cs_prev, predicted, tampered, batch, par>>
  /\ UNCHANGED others

SynthesizeParallel ==
  /\ batch # << >>
  /\ par = << >>
  /\ par' = <<synthesize_frames_parallel(BatchCS(Funcs[func], batch[1].input),
                  BatchInput(Funcs[func], batch[1].input), batch[1].frames, Funcs[func])>>
  /\ UNCHANGED <<func, owner, frame, cs, cs_prev, predicted, tampered, batch, seq>>
  /\ UNCHANGED others

DropBatch ==
  /\ batch # << >>
  /\ batch' = << >>
  /\ seq' = << >>
  /\ par' = << >>
  /\ UNCHANGED <<func, owner, frame, cs, cs_prev, predicted, tampered>>
  /\ UNCHANGED others

Next ==
  \/ \E i \in FuncIds : SelectFunc(i)
  \/ \E input \in Inputs(Funcs[func]) : Interpret(input)
  \/ \E input \in BatchInputs : InterpretOther(input)
  \/ MakeBlank
  \/ Synthesize
  \/ \E k \in 1..MaxMatches : Tamper(k)
  \/ Next_frame
  \/ NumConstraints
  \/ \E input \in BatchInputs, n \in 0..MaxFrames : MakeBatch(input, n)
  \/ SynthesizeSequential
  \/ SynthesizeParallel
  \/ DropBatch

Spec == Init /\ [][Next]_vars

\* ------------------------------------------------------------------------
\* Properties
\* ------------------------------------------------------------------------
\* a synthesis of the Func under test from a Frame made for it, without error
Synthesized == cs # << >> /\ owner = func /\ cs[1].err = ""
\* ... from a Frame that interpretation produced, with the witness as assigned
Honest == Synthesized /\ ~frame[1].blank /\ ~tampered

\* C1: for a fixed Func the synthesized constraint system has the same shape
\* (as many variables, the same constraints over the same variables, in the
\* same order) as the previous synthesis of that Func, whatever the Frame,
\* blank Frames included.
C1_SameShape ==
  (Synthesized /\ cs_prev # << >>) => Shape(cs[1]) = cs_prev[1].shape

\* two syntheses of one Func whose concrete paths differ, compared
C1_Witness ==
  /\ Synthesized /\ cs_prev # << >>
  /\ ~frame[1].blank
  /\ Taken(cs[1]) # cs_prev[1].taken
  /\ Len(cs[1].cons) > 20
  /\ Shape(cs[1]) = cs_prev[1].shape

\* C2: the constraints produced by allocating the globals and synthesizing
\* one Frame are as many as Func::num_constraints returns.
C2_NumConstraints ==
  (Synthesized /\ predicted # -1) => cs_num_constraints(cs[1]) = predicted

\* C3: the constraint system synthesized from an interpreted Frame is
\* satisfied by the witness the synthesizer assigned.
C3_Satisfied == Honest => is_satisfied(cs[1])

\* a satisfied system with a match on a branch not taken none of whose
\* selector bits is set
C3_Witness ==
  /\ Honest
  /\ is_satisfied(cs[1])
  /\ \E k \in DOMAIN cs[1].matches :
        /\ ~cs[1].matches[k].premise
        /\ \A j \in DOMAIN cs[1].matches[k].selector :
              ~cs[1].aux[cs[1].matches[k].selector[j]]
        /\ \A j \in DOMAIN cs[1].matches[k].consts :
              cs[1].aux[cs[1].matches[k].matched] # cs[1].matches[k].consts[j]

\* the selector bit that must be set in match m: the case whose constant
\* equals the matched value, the default (after the cases) when there is none
Selected(s, m) ==
      Let([i \in {FindCase(m.consts, s.aux[m.matched], 1)} |->
     IF i > 0 THEN i ELSE Len(m.consts) + 1])

\* C4: in a match whose not-dummy premise is true exactly one selector bit is
\* true, that of the case whose constant equals the matched value, or that
\* of the default when no case equals it; in a match whose premise is false
\* every selector bit is false.
C4_OneSelected ==
  Honest =>
    \A k \in DOMAIN cs[1].matches :
      LET m == cs[1].matches[k]
      IN /\ m.premise => Selected(cs[1], m) \in DOMAIN m.selector
         /\ \A j \in DOMAIN m.selector :
              cs[1].aux[m.selector[j]] = (m.premise /\ j = Selected(cs[1], m))

\* a walk with a match that selected its default, a match that selected a
\* case, and a match on a branch not taken
C4_Witness ==
  /\ Honest
  /\ \E k \in DOMAIN cs[1].matches :
        LET m == cs[1].matches[k]
        IN m.premise /\ m.hasdef /\ cs[1].aux[m.selector[Len(m.selector)]]
  /\ \E k \in DOMAIN cs[1].matches :
        LET m == cs[1].matches[k]
        IN m.premise /\ \E j \in DOMAIN m.consts : cs[1].aux[m.selector[j]]
  /\ \E k \in DOMAIN cs[1].matches : ~cs[1].matches[k].premise

\* the Returns of body instance b (0: the Func itself, k: the k-th Call)
ReturnsOf(s, b) == {i \in DOMAIN s.returns : s.returns[i].body = b}
BodyPremise(s, b) == IF b = 0 THEN TRUE ELSE s.bodies[b].premise
\* a Block under branch br of Ctrl id was walked
Walked(s, id, br) ==
  \E i \in DOMAIN s.returns :
     \E j \in DOMAIN s.returns[i].path : s.returns[i].path[j] = <<id, br>>

\* C5: both branches of every If are walked, with the premises
\* (not_dummy and cond) and (not_dummy and not cond); in a walk of an
\* interpreted Frame each Func body on the concrete path has exactly one
\* Return whose premise is true, and a body off the concrete path has none.
C5_OneReturn ==
  /\ Synthesized =>
        \A k \in DOMAIN cs[1].ifs :
           LET c == cs[1].ifs[k]
           IN /\ c.t = (c.premise /\ c.cond)
              /\ c.f = (c.premise /\ ~c.cond)
              /\ Walked(cs[1], c.id, 1) /\ Walked(cs[1], c.id, 2)
  /\ Honest =>
        \A b \in 0..Len(cs[1].bodies) :
           Cardinality({i \in ReturnsOf(cs[1], b) : cs[1].returns[i].premise})
             = IF BodyPremise(cs[1], b) THEN 1 ELSE 0

\* a walk through an If under a false premise, a called body on the concrete
\* path and, for the Func itself, several Returns of which one is taken
C5_Witness ==
  /\ Honest
  /\ \E k \in DOMAIN cs[1].ifs : ~cs[1].ifs[k].premise /\ cs[1].ifs[k].cond
  /\ Cardinality(ReturnsOf(cs[1], 0)) > 2
  /\ Cardinality({i \in ReturnsOf(cs[1], 0) : cs[1].returns[i].premise}) = 1

\* a called body on the concrete path and one off it
C5_CallWitness ==
  /\ Honest
  /\ \E b \in DOMAIN cs[1].bodies : cs[1].bodies[b].premise
  /\ \E b \in DOMAIN cs[1].bodies : ~cs[1].bodies[b].premise

HintLengthsMatch ==
  \A i \in DOMAIN SlotTypes :
     Len(frame[1].hints[SlotTypes[i]]) = slot(Funcs[func])[SlotTypes[i]]

\* C6: for every slot type the synthesizer allocates as many (preimage,
\* image) pairs as the static slot count of the Func, before anything of the
\* body: the preimage of a slot with a hint holds the values of the hint,
\* that of a slot without a hint holds zeros; a hint vector whose length is
\* not the static count aborts the synthesis.
C6_SlotsAllocated ==
  cs # << >> =>
    /\ ~HintLengthsMatch => cs[1].err = "panic"
    /\ HintLengthsMatch =>
         \A i \in DOMAIN SlotTypes :
            LET typ == SlotTypes[i]
                sl == cs[1].slots[typ]
            IN /\ Len(sl) = slot(Funcs[func])[typ]
               /\ \A k \in DOMAIN sl :
                    /\ NumVals(sl[k].preimg) =
                         IF frame[1].hints[typ][k].some
                         THEN SlotDataValues(frame[1].hints[typ][k].data)
                         ELSE Zeros(preimg_size(typ))
                    /\ \A j \in DOMAIN sl[k].preimg : sl[k].preimg[j].id <= cs[1].body_start

\* a synthesis with a hinted slot and a slot without hint of the same type
C6_Witness ==
  /\ Honest
  /\ HintLengthsMatch
  /\ \E i \in DOMAIN SlotTypes :
        /\ \E k \in DOMAIN frame[1].hints[SlotTypes[i]] :
              frame[1].hints[SlotTypes[i]][k].some
        /\ \E k \in DOMAIN frame[1].hints[SlotTypes[i]] :
              /\ ~frame[1].hints[SlotTypes[i]][k].some
              /\ NumVals(cs[1].slots[SlotTypes[i]][k].preimg)
                   = Zeros(preimg_size(SlotTypes[i]))

\* a Frame whose hints have another length: the synthesis aborted
C6_AbortWitness ==
  cs # << >> /\ ~HintLengthsMatch /\ cs[1].err = "panic"

\* C7: the static slot count of a block is, per slot type, the sum over its
\* Ops (a Call counting the callee's slots) plus the maximum over the
\* branches of its control: three hashes and a match whose largest branch
\* hashes once per arity count (2,2,2), a further nested match (4,4,4); it
\* is the value the slot counter of the synthesizer ends with.
C7_StaticCount ==
  /\ slot(hash_slots) = SlotsCounter(2, 2, 2, 0, 0)
  /\ slot(unhash_nested_slots) = SlotsCounter(4, 4, 4, 0, 0)
  /\ slot(call_ops) = SlotsAdd(slot(first_or_self),
                                SlotsMax(slot(first_or_self), SlotsCounter(0, 1, 0, 0, 0)))
  /\ Synthesized => cs[1].next_slot = slot(Funcs[func])

\* a synthesis of the Func with a match nested in a branch of a match
C7_Witness ==
  /\ Synthesized
  /\ Funcs[func] = unhash_nested_slots
  /\ Len(cs[1].ctrls) = 2
  /\ cs[1].next_slot = SlotsCounter(4, 4, 4, 0, 0)

\* two walked positions lie on one path: no control sends them to
\* different branches
SamePath(p, q) ==
  \A i \in DOMAIN p : \A j \in DOMAIN q : p[i][1] = q[j][1] => p[i][2] = q[j][2]
InBranch(e, id) == \E j \in DOMAIN e.path : e.path[j][1] = id
\* the slot Ops the concrete path consumed, with their indices, in order
OnPath(s) ==
      Let([on \in {SelectSeq(s.consumed, LAMBDA e : e.premise)} |->
     [i \in DOMAIN on |-> [typ |-> on[i].typ, idx |-> on[i].idx, op |-> on[i].op]]])

\* C8: the slot index each Op consumes is the same for every Frame of the
\* Func and is the index at which interpretation recorded the hint of that
\* Op; each branch of a control starts from the counter at the branch point,
\* the counter after the control is the per-type maximum over its branches,
\* no two Ops on one path consume the same slot and every consumed index
\* is below the static slot count, so that no walk runs out of slots.
C8_SlotIndices ==
  /\ (cs # << >> /\ owner = func) => cs[1].err = ""
  /\ (Synthesized /\ cs_prev # << >>) => SlotUse(cs[1]) = cs_prev[1].consumed
  /\ Honest => OnPath(cs[1]) = frame[1].hints.trace
  /\ Synthesized =>
       /\ \A k \in DOMAIN cs[1].ctrls :
            LET c == cs[1].ctrls[k]
            IN /\ c.after = fold_max(c.start, c.ends)
               /\ \A i \in DOMAIN cs[1].consumed :
                    LET e == cs[1].consumed[i]
                    IN InBranch(e, c.id) =>
                         /\ e.idx >= c.start[e.typ]
                         /\ e.idx > c.start[e.typ] =>
                              \E j \in 1..(i - 1) :
                                 /\ cs[1].consumed[j].typ = e.typ
                                 /\ cs[1].consumed[j].idx = e.idx - 1
                                 /\ SamePath(cs[1].consumed[j].path, e.path)
                                 /\ InBranch(cs[1].consumed[j], c.id)
       /\ \A i, j \in DOMAIN cs[1].consumed :
            LET e == cs[1].consumed[i]
                d == cs[1].consumed[j]
            IN (i # j /\ e.typ = d.typ /\ SamePath(e.path, d.path)) => e.idx # d.idx
       /\ \A i \in DOMAIN cs[1].consumed :
            cs[1].consumed[i].idx < slot(Funcs[func])[cs[1].consumed[i].typ]

\* a walk with two branches that consume the same slot, a second Frame of
\* the Func, and hints recorded by the interpretation
C8_Witness ==
  /\ Honest
  /\ cs_prev # << >>
  /\ Len(frame[1].hints.trace) > 1
  /\ \E i, j \in DOMAIN cs[1].consumed :
        /\ i # j
        /\ cs[1].consumed[i].typ = cs[1].consumed[j].typ
        /\ cs[1].consumed[i].idx = cs[1].consumed[j].idx
        /\ ~SamePath(cs[1].consumed[i].path, cs[1].consumed[j].path)

\* the default bit of match m is set and the matched value is a case constant
DefaultOnCase(s, m) ==
  /\ m.hasdef
  /\ s.aux[m.selector[Len(m.selector)]] = TRUE
  /\ \E j \in DOMAIN m.consts : s.aux[m.matched] = m.consts[j]

\* C9: in a match with a default, no assignment that sets the default bit
\* while the matched value equals the constant of an explicit case
\* satisfies the constraints.
C9_DefaultUnequal ==
  (cs # << >> /\ owner = func /\ cs[1].err = "") =>
    \A k \in DOMAIN cs[1].matches :
       DefaultOnCase(cs[1], cs[1].matches[k]) => ~is_satisfied(cs[1])

\* an assignment with the default bit set on a matched value that is a case
\* constant; it is rejected
C9_Witness ==
  /\ cs # << >> /\ owner = func /\ cs[1].err = "" /\ tampered
  /\ \E k \in DOMAIN cs[1].matches : DefaultOnCase(cs[1], cs[1].matches[k])
  /\ ~is_satisfied(cs[1])

BothSynthesized == batch # << >> /\ seq # << >> /\ par # << >>

\* C10: for one batch of Frames and one input the sequential and the
\* parallel synthesis give the same witness (the same input and auxiliary
\* assignments in the same order) and the same output pointers; for an
\* empty batch both return the input.
C10_SeqParEqual ==
  BothSynthesized =>
    /\ seq[1].cs.err = par[1].cs.err
    /\ seq[1].cs.err = "" =>
         /\ Witness(seq[1].cs) = Witness(par[1].cs)
         /\ PtrValues(seq[1].output) = PtrValues(par[1].output)
    /\ batch[1].frames = << >> =>
         /\ seq[1].output = BatchInput(Funcs[func], batch[1].input)
         /\ par[1].output = BatchInput(Funcs[func], batch[1].input)

\* a batch of several Frames synthesized both ways
C10_Witness ==
  /\ BothSynthesized
  /\ Len(batch[1].frames) > 1
  /\ seq[1].cs.err = ""
  /\ Len(seq[1].cs.aux) > 100
  /\ Witness(seq[1].cs) = Witness(par[1].cs)

\* an empty batch synthesized both ways
C10_EmptyWitness ==
  BothSynthesized /\ batch[1].frames = << >> /\ seq[1].output = par[1].output

\* ------------------------------------------------------------------------
\* Batches that are not chains: synthesize_frames_sequential and
\* synthesize_frames_parallel take any slice of Frames
\* ------------------------------------------------------------------------
\* every Frame's output is the input of the Frame after it
Chained(frames) ==
  \A i \in 1..(Len(frames) - 1) : frames[i].output = frames[i + 1].input

\* a batch of two Frames, the second interpreted from input2
MakeUnchained(input, input2) ==
  /\ Idle
  /\ cs_prev = << >>
  /\ predicted # -1
  /\ IsStep(Funcs[func])
  /\ call_simple(Funcs[func], input) # << >>
  /\ call_simple(Funcs[func], input2) # << >>
  /\ call_simple(Funcs[func], input)[1].output # input2
  /\ batch' = <<[input |-> input,
                 frames |-> call_simple(Funcs[func], input) \o call_simple(Funcs[func], input2)]>>
  /\ UNCHANGED <<func, owner, frame, cs, cs_prev, predicted, tampered, seq, par>>
  /\ UNCHANGED others

NextUnchained ==
  \/ Next
  \/ \E input \in BatchInputs, input2 \in BatchInputs : MakeUnchained(input, input2)

SpecUnchained == Init /\ [][NextUnchained]_vars

\* C11: a batch synthesized to the end, sequentially or in parallel, is a
\* chain (each Frame's output pointers are the next Frame's input pointers),
\* and a batch that is not a chain ends in an assertion failure.
C11_ChainedOrAbort ==
  /\ (batch # << >> /\ seq # << >> /\ ~Chained(batch[1].frames)) => seq[1].cs.err = "panic"
  /\ (batch # << >> /\ par # << >> /\ ~Chained(batch[1].frames)) => par[1].cs.err = "panic"

\* ------------------------------------------------------------------------
\* generate_slots_witnesses (lem/multiframe.rs): one task per slot of the
\* batch; the tasks of a parallel run interleave at the reads and writes of
\* the cache of dummy witnesses
\* ------------------------------------------------------------------------
MaxSlotTasks == 6

\* the slots of one Frame from slot type number i on, each with its type
RECURSIVE FrameSlotsFrom(_, _)
FrameSlotsFrom(fr, i) ==
  IF i > Len(SlotTypes) THEN << >>
  ELSE [k \in DOMAIN fr.hints[SlotTypes[i]] |->
          [data |-> fr.hints[SlotTypes[i]][k], typ |-> SlotTypes[i]]]
       \o FrameSlotsFrom(fr, i + 1)

\* slots_data: the slots of every Frame, Frame after Frame
RECURSIVE SlotsDataOf(_)
SlotsDataOf(frames) ==
  IF frames = << >> THEN << >>
  ELSE FrameSlotsFrom(Head(frames), 1) \o SlotsDataOf(Tail(frames))

\* as mk_witness, but the witness holds the position of the slot
mk_witness_positional(slot_idx, sd) ==
      Let([s \in {allocate_slot(SynthInit, sd.data, sd.typ)} |->
     [witness |-> [inputs |-> s.inputs, aux |-> <<Fe(slot_idx)>> \o s.aux],
      allocations |-> s.slots[sd.typ], err |-> s.err]])

\* mk_witness: the slot allocated in a WitnessCS of its own
mk_witness(slot_idx, sd) ==
      Let([s \in {allocate_slot(SynthInit, sd.data, sd.typ)} |->
     [witness |-> Witness(s), allocations |-> s.slots[sd.typ], err |-> s.err]])

\* a sequential run takes the slots in order, one at a time
Turn(i) == parallel \/ \A j \in 1..(i - 1) : task[j].pc = "done"

GenerateSlotsWitnesses(p) ==
  /\ batch # << >>
  /\ seq = << >> /\ par = << >>
  /\ slots_data = << >>
  /\ Len(SlotsDataOf(batch[1].frames)) \in 1..MaxSlotTasks
  /\ slots_data' = SlotsDataOf(batch[1].frames)
  /\ dummy_witnesses_cache' = << >>
  /\ task' = [i \in DOMAIN SlotsDataOf(batch[1].frames) |-> [pc |-> "start", ws |-> << >>]]
  /\ parallel' = p
  /\ slots_witnesses' = << >>
  /\ UNCHANGED <<synthvars, mfvars, labvars, buildvars, evalvars, nivcvars>>

\* gen_slot_witness up to its answer, or up to the miss in the cache
gen_slot_witness(i) ==
  /\ i \in DOMAIN task
  /\ task[i].pc = "start"
  /\ Turn(i)
  /\ task' = [task EXCEPT ![i] =
       IF slots_data[i].data.some
       THEN [pc |-> "done", ws |-> <<mk_witness(i - 1, slots_data[i])>>]
       ELSE IF slots_data[i].typ \in DOMAIN dummy_witnesses_cache
       THEN [pc |-> "done", ws |-> <<dummy_witnesses_cache[slots_data[i].typ]>>]
       ELSE [pc |-> "computed", ws |-> <<mk_witness(i - 1, slots_data[i])>>]]
  /\ UNCHANGED <<synthvars, mfvars, labvars, buildvars, evalvars, nivcvars, slots_data, dummy_witnesses_cache, parallel, slots_witnesses>>

\* dummy_witnesses_cache.insert: an entry already there is kept
cache_insert(i) ==
  /\ i \in DOMAIN task
  /\ task[i].pc = "computed"
  /\ dummy_witnesses_cache' = dummy_witnesses_cache @@ (slots_data[i].typ :> task[i].ws[1])
  /\ task' = [task EXCEPT ![i].pc = "done"]
  /\ UNCHANGED <<synthvars, mfvars, labvars, buildvars, evalvars, nivcvars, slots_data, parallel, slots_witnesses>>

\* collect(): the answers in the order of the slots
CollectSlotsWitnesses ==
  /\ task # << >>
  /\ slots_witnesses = << >>
  /\ \A i \in DOMAIN task : task[i].pc = "done"
  /\ slots_witnesses' = <<[i \in DOMAIN task |-> task[i].ws[1]]>>
  /\ UNCHANGED <<synthvars, mfvars, labvars, buildvars, evalvars, nivcvars, slots_data, dummy_witnesses_cache, task, parallel>>

DropSlotsWitnesses ==
  /\ slots_witnesses # << >>
  /\ batch' = << >>
  /\ slots_data' = << >>
  /\ dummy_witnesses_cache' = << >>
  /\ task' = << >>
  /\ parallel' = FALSE
  /\ slots_witnesses' = << >>
  /\ UNCHANGED <<func, owner, frame, cs, cs_prev, predicted, tampered, seq, par, mfvars, labvars, buildvars, evalvars, nivcvars>>

NextSlots ==
  \/ \E i \in FuncIds : SelectFunc(i)
  \/ NumConstraints
  \/ \E input \in BatchInputs, n \in 0..MaxFrames : MakeBatch(input, n)
  \/ \E p \in BOOLEAN : GenerateSlotsWitnesses(p)
  \/ \E i \in 1..(MaxSlotTasks + 1) : gen_slot_witness(i)
  \/ \E i \in 1..(MaxSlotTasks + 1) : cache_insert(i)
  \/ CollectSlotsWitnesses
  \/ DropSlotsWitnesses

SpecSlots == Init /\ [][NextSlots]_vars

\* number of slots of the types before type number i
RECURSIVE SlotOffset(_, _)
SlotOffset(n, i) == IF i = 1 THEN 0 ELSE SlotOffset(n, i - 1) + n[SlotTypes[i - 1]]

\* C12: the collected witnesses are one per slot of each Frame, Frame after
\* Frame and within a Frame by slot type, and each is the witness computed
\* afresh for its position, in a sequential run and in every interleaving of a
\* parallel run, whichever task filled the cache of dummy witnesses.
C12_SlotsWitnesses ==
  slots_witnesses # << >> =>
    LET n == slot(Funcs[func])
        total == SlotOffset(n, Len(SlotTypes) + 1)
        frames == batch[1].frames
    IN /\ Len(slots_witnesses[1]) = Len(frames) * total
       /\ \A f \in DOMAIN frames : \A ti \in DOMAIN SlotTypes : \A k \in 1..n[SlotTypes[ti]] :
            LET pos == (f - 1) * total + SlotOffset(n, ti) + k
            IN slots_witnesses[1][pos] =
                 mk_witness(pos - 1, [data |-> frames[f].hints[SlotTypes[ti]][k],
                                      typ |-> SlotTypes[ti]])

\* a parallel run collected, with a slot that has a hint and two dummy slots
\* of one type
C12_Witness ==
  /\ slots_witnesses # << >>
  /\ parallel
  /\ \E i \in DOMAIN slots_data : slots_data[i].data.some
  /\ \E i, j \in DOMAIN slots_data :
       /\ i < j
       /\ ~slots_data[i].data.some /\ ~slots_data[j].data.some
       /\ slots_data[i].typ = slots_data[j].typ

\* two tasks missed the cache for the same slot type, and the later slot
\* wrote to the cache first
C12_RaceWitness ==
  \E i, j \in DOMAIN task :
    /\ i < j
    /\ slots_data[i].typ = slots_data[j].typ
    /\ task[i].pc = "computed"
    /\ task[j].pc = "done" /\ ~slots_data[j].data.some
    /\ slots_data[i].typ \in DOMAIN dummy_witnesses_cache

\* ------------------------------------------------------------------------
\* MultiFrame::from_frames, FoldingConfig::IVC (lem/multiframe.rs)
\* ------------------------------------------------------------------------
MaxReduction == 3

\* frames.chunks(reduction_count)
RECURSIVE chunks(_, _)
chunks(frames, reduction_count) ==
  IF frames = << >> THEN << >>
  ELSE IF Len(frames) <= reduction_count THEN <<frames>>
  ELSE <<SubSeq(frames, 1, reduction_count)>>
       \o chunks(SubSeq(frames, reduction_count + 1, Len(frames)), reduction_count)

\* as padding_frame, but the last frame of the chunk is taken again
padding_frame_repeat(lurk_step, chunk) == <<chunk[Len(chunk)]>>

\* the padding frame: one step from the output of the chunk
padding_frame(lurk_step, chunk) == call_simple(lurk_step, chunk[Len(chunk)].output)

\* the MultiFrame of one chunk
MultiFrameOf(lurk_step, chunk, reduction_count) ==
      Let([output \in {chunk[Len(chunk)].output} |->
      Let([pad \in {IF Len(chunk) < reduction_count THEN padding_frame(lurk_step, chunk)
                    ELSE <<chunk[1]>>} |->
     IF Len(chunk) < reduction_count /\ (pad = << >> \/ pad[1].input # pad[1].output)
     THEN [err |-> "panic"]
     ELSE [err |-> "", input |-> chunk[1].input, output |-> output,
           frames |-> chunk \o [i \in 1..(reduction_count - Len(chunk)) |-> pad[1]],
           reduction_count |-> reduction_count, pc |-> 0, next_pc |-> 0]])])

from_frames(reduction_count, frames, lurk_step) ==
      Let([mfs \in {[i \in DOMAIN chunks(frames, reduction_count) |->
                       MultiFrameOf(lurk_step, chunks(frames, reduction_count)[i],
                                    reduction_count)]} |->
     [err |-> IF \E i \in DOMAIN mfs : mfs[i].err # "" THEN "panic" ELSE "",
      multi_frames |-> mfs, reduction_count |-> reduction_count]])

FromFrames(reduction_count) ==
  /\ batch # << >>
  /\ batch[1].frames # << >>
  /\ multi_frames = << >>
  /\ multi_frames' = <<from_frames(reduction_count, batch[1].frames, Funcs[func])>>
  /\ UNCHANGED <<synthvars, slotvars, labvars, buildvars, evalvars, nivcvars>>

DropMultiFrames ==
  /\ multi_frames # << >>
  /\ multi_frames' = << >>
  /\ batch' = << >>
  /\ UNCHANGED <<func, owner, frame, cs, cs_prev, predicted, tampered, seq, par, slotvars, labvars, buildvars, evalvars, nivcvars>>

NextFromFrames ==
  \/ \E i \in FuncIds : SelectFunc(i)
  \/ NumConstraints
  \/ \E input \in BatchInputs, n \in 0..MaxFrames : MakeBatch(input, n)
  \/ \E reduction_count \in 1..MaxReduction : FromFrames(reduction_count)
  \/ DropMultiFrames

SpecFromFrames == Init /\ [][NextFromFrames]_vars

\* one step from the last output of the batch gives that output again
StepIsReflexive ==
  LET last == batch[1].frames[Len(batch[1].frames)].output
      step == call_simple(Funcs[func], last)
  IN step # << >> /\ step[1].input = step[1].output

\* C13: from_frames makes ceil(N / reduction_count) MultiFrames of exactly
\* reduction_count frames each, in the order given; the places after the
\* last frame hold the frame of one step from the last output, whose input
\* is its output; the input of a MultiFrame is that of its first frame, its
\* output that of its last frame that is no padding.  It aborts exactly when
\* the last chunk is short and that step does not give its input back.
C13_FromFrames ==
  multi_frames # << >> =>
    LET r == multi_frames[1]
        rc == r.reduction_count
        frames == batch[1].frames
        N == Len(frames)
        mfs == r.multi_frames
    IN /\ r.err = "" <=> (N % rc = 0 \/ StepIsReflexive)
       /\ r.err = "" =>
            /\ Len(mfs) = (N + rc - 1) \div rc
            /\ \A m \in DOMAIN mfs :
                 /\ Len(mfs[m].frames) = rc
                 /\ mfs[m].input = frames[(m - 1) * rc + 1].input
                 /\ mfs[m].output = frames[IF m * rc <= N THEN m * rc ELSE N].output
                 /\ \A j \in 1..rc :
                      IF (m - 1) * rc + j <= N
                      THEN mfs[m].frames[j] = frames[(m - 1) * rc + j]
                      ELSE /\ mfs[m].frames[j].input = frames[N].output
                           /\ mfs[m].frames[j].output = frames[N].output
                           /\ <<mfs[m].frames[j]>> = call_simple(Funcs[func], frames[N].output)

\* several MultiFrames of frames that make progress, the last one padded
C13_Witness ==
  /\ multi_frames # << >>
  /\ multi_frames[1].err = ""
  /\ Len(multi_frames[1].multi_frames) > 1
  /\ Len(batch[1].frames) % multi_frames[1].reduction_count # 0
  /\ batch[1].frames[1].input # batch[1].frames[1].output
  /\ batch[1].frames[2].input # batch[1].frames[2].output

\* the padding step is not reflexive: from_frames aborts
C13_AbortWitness ==
  multi_frames # << >> /\ multi_frames[1].err = "panic"

\* ------------------------------------------------------------------------
\* Funcs synthesized one at a time from Frames of any provenance: the Frame of
\* the Func itself, the Frame of a Func of the same shape, a blank Frame, or a
\* Frame whose coprocessor hints were changed after interpretation.
\* ------------------------------------------------------------------------
MaxCprocs == 2

\* a coprocessor call and the return of its outputs
cproc_dumb ==
  Func("cproc_dumb", IO3, 3,
       Block(<<OpCproc(<<"x", "e", "k">>, "dumb", <<"expr_in", "expr_in", "env_in", "cont_in">>)>>,
             Return(<<"x", "e", "k">>)))

cproc_hinted ==
  Func("cproc_hinted", IO3, 3,
       Block(<<OpCproc(<<"x", "e", "k">>, "hinted", <<"expr_in", "expr_in", "env_in", "cont_in">>)>>,
             Return(<<"x", "e", "k">>)))

\* a second coprocessor call on one branch only
cproc_branch ==
  Func("cproc_branch", IO3, 3,
       Block(<<OpCproc(<<"x", "e", "k">>, "hinted", <<"expr_in", "expr_in", "env_in", "cont_in">>)>>,
             MatchTag("env_in",
                      <<<<"Num", Block(<<OpCproc(<<"y", "e2", "k2">>, "dumb",
                                                 <<"x", "env_in", "e", "k">>)>>,
                                       Return(<<"y", "e2", "k2">>))>>>>,
                      <<Block(<< >>, Return(<<"x", "e", "k">>))>>)))

\* Funcs whose Num branch refers to a Var that is not bound, or bound to the
\* other kind of value: the body is (ops; match expr_in { Num => branch } or
\* return the inputs).  The branch is on the concrete path of a Num input and
\* on a virtual path of any other.
OnNum(name, ops, branch) ==
  Func(name, IO3, 3,
       Block(ops, MatchTag("expr_in", <<<<"Num", branch>>>>, <<Block(<< >>, Return(IO3))>>)))

ReturnZ == Return(<<"z", "env_in", "cont_in">>)
EqB == OpEqTag("b", "expr_in", "env_in")

well_formed == OnNum("well_formed", <<EqB>>, Block(<<OpAdd("z", "expr_in", "expr_in")>>, ReturnZ))
unbound_ptr == OnNum("unbound_ptr", <<EqB>>, Block(<<OpAdd("z", "expr_in", "ghost")>>, ReturnZ))
bool_for_ptr == OnNum("bool_for_ptr", <<EqB>>, Block(<<OpAdd("z", "expr_in", "b")>>, ReturnZ))
unbound_bool == OnNum("unbound_bool", <<EqB>>, Block(<<OpNot("z", "ghost")>>, Return(IO3)))
ptr_for_bool == OnNum("ptr_for_bool", <<EqB>>, Block(<<OpNot("z", "expr_in")>>, Return(IO3)))
unbound_return == OnNum("unbound_return", <<EqB>>, Block(<< >>, ReturnZ))
bool_return == OnNum("bool_return", <<EqB>>, Block(<< >>, Return(<<"b", "env_in", "cont_in">>)))
ptr_if ==
  OnNum("ptr_if", <<EqB>>,
        Block(<< >>, If("expr_in", Block(<< >>, Return(IO3)), Block(<< >>, Return(IO3)))))
bool_match ==
  OnNum("bool_match", <<EqB>>,
        Block(<< >>, MatchTag("b", << >>, <<Block(<< >>, Return(IO3))>>)))

\* matches that return another literal on each branch, with and without default
Pick(n) == Block(<<OpLit("r", PNum(n))>>, Return(<<"r", "env_in", "cont_in">>))

pick_tag ==
  Func("pick_tag", IO3, 3,
       Block(<< >>, MatchTag("expr_in", <<<<"Num", Pick(1)>>, <<"Cons", Pick(2)>>>>, << >>)))
pick_tag_default ==
  Func("pick_tag_default", IO3, 3,
       Block(<< >>, MatchTag("expr_in", <<<<"Num", Pick(1)>>, <<"Cons", Pick(2)>>>>,
                             <<Pick(0)>>)))
pick_symbol ==
  Func("pick_symbol", IO3, 3,
       Block(<< >>, MatchSymbol("expr_in", <<<<"let", Pick(1)>>, <<"lambda", Pick(2)>>>>, << >>)))
pick_symbol_default ==
  Func("pick_symbol_default", IO3, 3,
       Block(<< >>, MatchSymbol("expr_in", <<<<"let", Pick(1)>>, <<"lambda", Pick(2)>>>>,
                                <<Pick(0)>>)))

\* Funcs that build a pointer of the given tag from their input and take it
\* apart again, one for each arity
round2(tag) ==
  Func("round2", IO3, 3,
       Block(<<OpCons2("x", tag, <<"expr_in", "env_in">>), OpDecons2(<<"a", "b">>, "x")>>,
             Return(<<"a", "b", "cont_in">>)))
round3(tag) ==
  Func("round3", IO3, 3,
       Block(<<OpCons3("x", tag, IO3), OpDecons3(<<"a", "b", "c">>, "x")>>,
             Return(<<"a", "b", "c">>)))
round4(tag) ==
  Func("round4", IO3, 4,
       Block(<<OpCons4("x", tag, <<"expr_in", "env_in", "cont_in", "expr_in">>),
               OpDecons4(<<"a", "b", "c", "d">>, "x")>>,
             Return(<<"a", "b", "c", "d">>)))
\* Funcs that hide a payload behind a secret and open the commitment at once
hide_open(sec, pay) ==
  Func("hide_open", IO3, 3,
       Block(<<OpHide("c", sec, pay), OpOpen("s", "p", "c")>>, Return(<<"s", "p", "c">>)))

\* Funcs whose only Call or coprocessor Op is the first Op of the Num branch:
\* on a virtual path unless the Frame is interpreted from a Num
OnNumOp(name, op, ret) ==
  Func(name, IO3, 3,
       Block(<< >>, MatchTag("expr_in", <<<<"Num", Block(<<op>>, Return(ret))>>>>,
                             <<Block(<< >>, Return(IO3))>>)))
Inputs4 == <<"expr_in", "expr_in", "env_in", "cont_in">>
virt_call ==
  OnNumOp("virt_call", OpCall(<<"h", "r">>, first_or_self, <<"env_in", "expr_in">>),
          <<"h", "r", "cont_in">>)
virt_call_arity ==
  OnNumOp("virt_call_arity", OpCall(<<"h", "r", "q">>, first_or_self, <<"env_in", "expr_in">>),
          <<"h", "r", "cont_in">>)
virt_hinted ==
  OnNumOp("virt_hinted", OpCproc(<<"x", "e", "k">>, "hinted", Inputs4), <<"x", "e", "k">>)
virt_hinted_arity ==
  OnNumOp("virt_hinted_arity", OpCproc(<<"x", "e">>, "hinted", Inputs4), <<"x", "e", "cont_in">>)
virt_dumb ==
  OnNumOp("virt_dumb", OpCproc(<<"x", "e", "k">>, "dumb", Inputs4), <<"x", "e", "k">>)

\* Funcs that divide: env_in by expr_in, and the double of expr_in by expr_in
divrem ==
  Func("divrem", IO3, 3,
       Block(<<OpDivRem64(<<"q", "r">>, "env_in", "expr_in")>>, Return(<<"q", "r", "cont_in">>)))
divrem_double ==
  Func("divrem_double", IO3, 3,
       Block(<<OpAdd("d", "expr_in", "expr_in"), OpDivRem64(<<"q", "r">>, "d", "expr_in")>>,
             Return(<<"q", "r", "cont_in">>)))

\* Funcs that use the same constants over and over: as tag and as value, in
\* caller and callee, on both branches of a match
one_callee ==
  Func("one_callee", <<"x">>, 1,
       Block(<<OpLit("one", PNum(1)), OpDiv("y", "x", "one")>>, Return(<<"y">>)))
use_globals ==
  Func("use_globals", IO3, 3,
       Block(<<OpLit("four", PNum(4)), OpLit("four2", PNum(4)), OpLit("zero", PNum(0)),
               OpNull("nil", "Nil"), OpNull("out", "Outermost"), OpNull("term", "Terminal"),
               OpCall(<<"same">>, one_callee, <<"four">>),
               OpAdd("s", "same", "zero"), OpDiv("q", "s", "four2"),
               OpCast("c", "Char", "q"),
               OpCons2("p", "Cons", <<"c", "nil">>)>>,
             MatchSymbol("expr_in",
                         <<<<"let", Block(<<OpLit("r", PNum(1))>>, Return(<<"r", "p", "term">>))>>>>,
                         <<Block(<<OpNull("o2", "Outermost")>>, Return(<<"q", "p", "o2">>))>>)))

\* a Func that calls a Func with a coprocessor Op and then has one of its own
cproc_callee ==
  Func("cproc_callee", <<"a", "b", "e", "k">>, 1,
       Block(<<OpCproc(<<"y", "e2", "k2">>, "hinted", <<"a", "b", "e", "k">>)>>, Return(<<"y">>)))
call_then_cproc(sym) ==
  Func("call_then_cproc", IO3, 3,
       Block(<<OpCall(<<"c">>, cproc_callee, <<"expr_in", "expr_in", "env_in", "cont_in">>),
               OpCproc(<<"x", "e", "k">>, sym, <<"c", "expr_in", "env_in", "cont_in">>)>>,
             Return(<<"x", "e", "k">>)))

\* a coprocessor with a circuit, and an Op that uses the tag its circuit yields
cproc_add ==
  Func("cproc_add", IO3, 3,
       Block(<<OpCproc(<<"x", "e", "k">>, "dumb", <<"expr_in", "expr_in", "env_in", "cont_in">>),
               OpAdd("s", "x", "x")>>,
             Return(<<"s", "e", "k">>)))

\* a Func that compares its first two inputs and returns the lesser first
lt_cmp ==
  Func("lt_cmp", IO3, 3,
       Block(<<OpLt("c", "expr_in", "env_in")>>,
             If("c", Block(<< >>, Return(IO3)),
                     Block(<< >>, Return(<<"env_in", "expr_in", "cont_in">>)))))

\* a Func, the Func whose interpretation gives its Frames, and, for a Func
\* with a bad reference, the Vars that only a substituted default could bind
LabEntry(f, donor) == [func |-> f, donor |-> donor, ill |-> FALSE, never |-> {}]
IllEntry(f, never) == [func |-> f, donor |-> well_formed, ill |-> TRUE, never |-> never]

LabFuncs ==
  <<LabEntry(cproc_dumb, cproc_dumb), LabEntry(cproc_hinted, cproc_hinted),
    LabEntry(cproc_branch, cproc_branch), LabEntry(well_formed, well_formed),
    IllEntry(unbound_ptr, {"z", "ghost"}), IllEntry(bool_for_ptr, {"z"}),
    IllEntry(unbound_bool, {"z", "ghost"}), IllEntry(ptr_for_bool, {"z"}),
    IllEntry(unbound_return, {"z"}), IllEntry(bool_return, {}),
    IllEntry(ptr_if, {}), IllEntry(bool_match, {}),
    LabEntry(pick_tag, pick_tag), LabEntry(pick_tag_default, pick_tag_default),
    LabEntry(pick_symbol, pick_symbol), LabEntry(pick_symbol_default, pick_symbol_default),
    LabEntry(round2("Cons"), round2("Cons")), LabEntry(round2("Tail"), round2("Tail")),
    LabEntry(round3("Thunk"), round3("Thunk")), LabEntry(round3("Cons"), round3("Cons")),
    LabEntry(round4("Tail"), round4("Tail")), LabEntry(round4("Thunk"), round4("Thunk")),
    LabEntry(hide_open("expr_in", "env_in"), hide_open("expr_in", "env_in")),
    LabEntry(hide_open("env_in", "cont_in"), hide_open("env_in", "cont_in")),
    LabEntry(hide_open("expr_in", "expr_in"), hide_open("expr_in", "expr_in")),
    LabEntry(virt_call, virt_call), LabEntry(virt_call_arity, virt_call_arity),
    LabEntry(virt_hinted, virt_hinted), LabEntry(virt_hinted_arity, virt_hinted_arity),
    LabEntry(virt_dumb, virt_dumb), LabEntry(call_ops, call_ops),
    LabEntry(divrem, divrem), LabEntry(divrem_double, divrem_double),
    LabEntry(lt_cmp, lt_cmp), LabEntry(use_globals, use_globals),
    LabEntry(cproc_add, cproc_add),
    LabEntry(call_then_cproc("dumb"), call_then_cproc("dumb")),
    LabEntry(call_then_cproc("hinted"), call_then_cproc("hinted"))>>

LabInputs ==
  {<<e, v, k>> : e \in {PNum(2), PNum(3), ConsPair, PSym("let"), PSym("foo")},
                 v \in {PNum(5), ConsPair},
                 k \in {PNull("Outermost"), TailCont}}

LabIdle == lab_func = 0

\* Func::call_simple on an input: a Frame, or none when interpretation fails
LabInterpret(i, input) ==
  /\ LabIdle
  /\ lab_func' = i
  /\ lab_input' = <<input>>
  /\ lab_frame' = call_simple(LabFuncs[i].donor, input)
  /\ UNCHANGED <<lab_cs, synthvars, slotvars, mfvars, buildvars, evalvars, nivcvars>>

\* Frame::blank
LabBlank(i) ==
  /\ LabIdle
  /\ lab_func' = i
  /\ lab_frame' = <<FrameBlank(LabFuncs[i].func)>>
  /\ UNCHANGED <<lab_input, lab_cs, synthvars, slotvars, mfvars, buildvars, evalvars, nivcvars>>

\* the k-th coprocessor hint after a change of the given kind
CorruptedHint(ptrs, kind) ==
  CASE kind = "short" -> SubSeq(ptrs, 1, Len(ptrs) - 1)
    [] kind = "long" -> Append(ptrs, ZDummy)
    [] kind = "tag" -> [ptrs EXCEPT ![1].tag = IF @ = to_field("Num") THEN to_field("Char")
                                                ELSE to_field("Num")]
    [] kind = "hash" -> [ptrs EXCEPT ![1].val = IF @ = ONE THEN ZERO ELSE ONE]

\* the Frame reaches the synthesizer with a coprocessor hint that is not the
\* one interpretation recorded
LabCorruptHint(k, kind) ==
  /\ lab_frame # << >>
  /\ lab_cs = << >>
  /\ lab_input # << >>
  /\ lab_frame = call_simple(LabFuncs[lab_func].donor, lab_input[1])
  /\ k \in DOMAIN lab_frame[1].hints.cproc_outputs
  /\ lab_frame[1].hints.cproc_outputs[k] # << >>
  /\ lab_frame' = <<[lab_frame[1] EXCEPT !.hints.cproc_outputs[k] = CorruptedHint(@, kind)]>>
  /\ UNCHANGED <<lab_func, lab_input, lab_cs, synthvars, slotvars, mfvars, buildvars, evalvars, nivcvars>>

\* Func::synthesize_frame_aux on a fresh constraint system
LabSynthesize ==
  /\ lab_frame # << >>
  /\ lab_cs = << >>
  /\ lab_cs' = <<synthesize_frame_aux(LabFuncs[lab_func].func, lab_frame[1])>>
  /\ UNCHANGED <<lab_func, lab_input, lab_frame, synthvars, slotvars, mfvars, buildvars, evalvars, nivcvars>>

\* the values a prover may assign to div and rem
MaxAdvice == 3
Advice == {Fe(n) : n \in 0..MaxAdvice} \cup {Fe(P - 1)}

\* the Frame with the first two outputs replaced by Nums of the given values
Claiming(fr, q, r) ==
  [fr EXCEPT !.output = <<[tag |-> to_field("Num"), val |-> q],
                          [tag |-> to_field("Num"), val |-> r]>> \o SubSeq(@, 3, Len(@))]

\* Func::synthesize_frame_aux with the witness of div and rem supplied by the
\* prover, who claims them as the output of the Frame
LabAdvise(q, r) ==
  /\ lab_frame # << >>
  /\ lab_cs = << >>
  /\ ~lab_frame[1].blank
  /\ LabFuncs[lab_func].func.body.ops # << >>
  /\ LabFuncs[lab_func].func.body.ops[Len(LabFuncs[lab_func].func.body.ops)].op = "DivRem64"
  /\ lab_frame' = <<Claiming(lab_frame[1], q, r)>>
  /\ lab_cs' = <<synthesize_frame(LabFuncs[lab_func].func, lab_frame'[1],
                    allocate_input(LabFuncs[lab_func].func, lab_frame'[1],
                      alloc_globals(LabFuncs[lab_func].func,
                                    [SynthInit EXCEPT !.advice = <<q, r>>])))>>
  /\ UNCHANGED <<lab_func, lab_input, synthvars, slotvars, mfvars, buildvars, evalvars, nivcvars>>

LabDrop ==
  /\ ~LabIdle
  /\ lab_func' = 0
  /\ lab_input' = << >>
  /\ lab_frame' = << >>
  /\ lab_cs' = << >>
  /\ UNCHANGED <<synthvars, slotvars, mfvars, buildvars, evalvars, nivcvars>>

NextLab ==
  \/ \E i \in DOMAIN LabFuncs, input \in LabInputs : LabInterpret(i, input)
  \/ \E i \in DOMAIN LabFuncs : LabBlank(i)
  \/ \E k \in 1..MaxCprocs, kind \in {"short", "long", "tag", "hash"} : LabCorruptHint(k, kind)
  \/ LabSynthesize
  \/ \E q \in Advice, r \in Advice : LabAdvise(q, r)
  \/ LabDrop

SpecLab == Init /\ [][NextLab]_vars

\* the comparison on residues around zero, around the middle of the field and
\* below P
MaxLtSpread == 2
Half == (P - 1) \div 2
LtValues == (0..MaxLtSpread) \cup ((Half - MaxLtSpread)..(Half + 1 + MaxLtSpread))
              \cup ((P - 1 - MaxLtSpread)..(P - 1))
LtInputs == {<<PNum(x), PNum(y), PNull("Outermost")>> : x \in LtValues, y \in LtValues}
LtFuncs == {i \in DOMAIN LabFuncs : LabFuncs[i].func.body.ops # << >>
                                       /\ LabFuncs[i].func.body.ops[1].op = "Lt"}
NextLt ==
  \/ \E i \in LtFuncs, input \in LtInputs : LabInterpret(i, input)
  \/ \E i \in LtFuncs : LabBlank(i)
  \/ LabSynthesize
  \/ LabDrop

SpecLt == Init /\ [][NextLt]_vars

\* ------------------------------------------------------------------------
\* Lurk's step function (eval.rs), written in the intermediate representation
\* ------------------------------------------------------------------------
\* a block that only returns
RetB(vs) == Block(<< >>, Return(vs))
\* tag1 | tag2 | .. => block
Alt(keys, block) == [i \in DOMAIN keys |-> <<keys[i], block>>]
\* return (expr, env, err, err)
ErrB == RetB(<<"expr", "env", "err", "err">>)

env_to_use ==
  Func("env_to_use", <<"smaller_env", "smaller_rec_env">>, 1,
    Block(<< >>, MatchTag("smaller_rec_env",
      <<<<"Nil", RetB(<<"smaller_env">>)>>>>,
      <<Block(<<OpCons2("env", "Cons", <<"smaller_rec_env", "smaller_env">>)>>,
              Return(<<"env">>))>>)))

extract_arg ==
  Func("extract_arg", <<"args">>, 2,
    Block(<< >>, MatchTag("args",
      <<<<"Nil", Block(<<OpLit("dummy", PSym("dummy")), OpNull("nil", "Nil")>>,
                       Return(<<"dummy", "nil">>))>>,
        <<"Cons", Block(<<OpDecons2(<<"arg", "rest">>, "args")>>, Return(<<"arg", "rest">>))>>>>,
      << >>)))

expand_bindings ==
  Func("expand_bindings", <<"head", "body", "body1", "rest_bindings">>, 1,
    Block(<< >>, MatchTag("rest_bindings",
      <<<<"Nil", RetB(<<"body1">>)>>>>,
      <<Block(<<OpCons2("expanded_0", "Cons", <<"rest_bindings", "body">>),
                OpCons2("expanded", "Cons", <<"head", "expanded_0">>)>>,
              Return(<<"expanded">>))>>)))

eval_choose_let_cont ==
  Func("eval_choose_let_cont", <<"head", "var", "env", "expanded", "cont">>, 1,
    Block(<< >>, MatchSymbol("head",
      <<<<"let", Block(<<OpCons4("cont", "Let", <<"var", "env", "expanded", "cont">>)>>,
                       Return(<<"cont">>))>>,
        <<"letrec", Block(<<OpCons4("cont", "LetRec", <<"var", "env", "expanded", "cont">>)>>,
                          Return(<<"cont">>))>>>>,
      << >>)))

\* match head.symbol { symbol => { let op: Tag; return (op) } .. };
\* let dummy = Symbol("dummy"); return (dummy)
choose(name, table) ==
  Func(name, <<"head">>, 1,
    Block(<< >>, MatchSymbol("head",
      [i \in DOMAIN table |->
         <<table[i][1], Block(<<OpNull("op", table[i][2])>>, Return(<<"op">>))>>],
      <<Block(<<OpLit("dummy", PSym("dummy"))>>, Return(<<"dummy">>))>>)))

UnopTable ==
  <<<<"car", "Car">>, <<"cdr", "Cdr">>, <<"commit", "Commit">>, <<"num", "Num">>,
    <<"u64", "U64">>, <<"comm", "Comm">>, <<"char", "Char">>, <<"open", "Open">>,
    <<"secret", "Secret">>, <<"atom", "Atom">>, <<"emit", "Emit">>>>
BinopTable ==
  <<<<"cons", "Cons">>, <<"strcons", "StrCons">>, <<"hide", "Hide">>, <<"+", "Sum">>,
    <<"-", "Diff">>, <<"*", "Product">>, <<"div", "Quotient">>, <<"%", "Modulo">>,
    <<"=", "NumEqual">>, <<"eq", "Equal">>, <<"<", "Less">>, <<">", "Greater">>,
    <<"<=", "LessEqual">>, <<">=", "GreaterEqual">>>>
choose_unop == choose("choose_unop", UnopTable)
choose_binop == choose("choose_binop", BinopTable)

\* reduce, Sym: the lookup of a variable in the environment
reduce_lookup_var ==
  IfEq("var_or_rec_binding", "expr",
    RetB(<<"val_or_more_rec_env", "env", "cont", "apply">>),
    Block(<< >>, MatchTag("cont",
      <<<<"Lookup", RetB(<<"expr", "smaller_env", "cont", "ret">>)>>>>,
      <<Block(<<OpCons2("cont", "Lookup", <<"env", "cont">>)>>,
              Return(<<"expr", "smaller_env", "cont", "ret">>))>>)))

reduce_lookup_rec ==
  Block(<<OpCall(<<"v2", "val2">>, safe_uncons, <<"var_or_rec_binding">>)>>,
    IfEq("v2", "expr",
      Block(<< >>, MatchTag("val2",
        <<<<"Fun", Block(<<OpDecons3(<<"arg", "body", "closed_env">>, "val2"),
                           OpCons2("extended", "Cons", <<"binding", "closed_env">>),
                           OpCons3("fun", "Fun", <<"arg", "body", "extended">>)>>,
                         Return(<<"fun", "env", "cont", "apply">>))>>>>,
        <<RetB(<<"val2", "env", "cont", "apply">>)>>)),
      Block(<<OpCall(<<"env_to_use">>, env_to_use, <<"smaller_env", "val_or_more_rec_env">>)>>,
        MatchTag("cont",
          <<<<"Lookup", RetB(<<"expr", "env_to_use", "cont", "ret">>)>>>>,
          <<Block(<<OpCons2("cont", "Lookup", <<"env", "cont">>)>>,
                  Return(<<"expr", "env_to_use", "cont", "ret">>))>>))))

reduce_sym ==
  Block(<< >>, MatchSymbol("expr",
    Alt(<<"nil", "t">>, RetB(<<"expr", "env", "cont", "apply">>)),
    <<Block(<< >>, MatchTag("env",
        <<<<"Nil", ErrB>>>>,
        <<Block(<<OpCall(<<"binding", "smaller_env">>, safe_uncons, <<"env">>)>>,
            MatchTag("binding",
              <<<<"Nil", ErrB>>>>,
              <<Block(<<OpCall(<<"var_or_rec_binding", "val_or_more_rec_env">>,
                               safe_uncons, <<"binding">>)>>,
                  MatchTag("var_or_rec_binding",
                    <<<<"Sym", Block(<< >>, reduce_lookup_var)>>,
                      <<"Cons", reduce_lookup_rec>>>>,
                    << >>))>>))>>))>>))

\* reduce, Cons: the special forms
reduce_lambda ==
  Block(<<OpCall(<<"args", "body">>, safe_uncons, <<"rest">>),
          OpCall(<<"arg", "cdr_args">>, extract_arg, <<"args">>)>>,
    MatchTag("arg",
      <<<<"Sym", Block(<< >>, MatchTag("cdr_args",
           <<<<"Nil", Block(<<OpCons3("function", "Fun", <<"arg", "body", "env">>)>>,
                            Return(<<"function", "env", "cont", "apply">>))>>>>,
           <<Block(<<OpCons2("inner", "Cons", <<"cdr_args", "body">>),
                     OpLit("lambda", PSym("lambda")),
                     OpCons2("l", "Cons", <<"lambda", "inner">>),
                     OpCons2("inner_body", "Cons", <<"l", "nil">>),
                     OpCons3("function", "Fun", <<"arg", "inner_body", "env">>)>>,
                   Return(<<"function", "env", "cont", "apply">>))>>))>>>>,
      <<ErrB>>))

reduce_quote ==
  Block(<<OpCall(<<"quoted", "end">>, safe_uncons, <<"rest">>)>>,
    MatchTag("end", <<<<"Nil", RetB(<<"quoted", "env", "cont", "apply">>)>>>>, <<ErrB>>))

reduce_let ==
  Block(<<OpCall(<<"bindings", "body">>, safe_uncons, <<"rest">>),
          OpCall(<<"body1", "rest_body">>, safe_uncons, <<"body">>)>>,
    MatchTag("body", <<<<"Nil", ErrB>>>>,
      <<Block(<< >>, MatchTag("rest_body",
          <<<<"Nil", Block(<< >>, MatchTag("bindings",
               <<<<"Nil", RetB(<<"body1", "env", "cont", "ret">>)>>>>,
               <<Block(<<OpCall(<<"binding1", "rest_bindings">>, safe_uncons, <<"bindings">>),
                         OpCall(<<"var", "vals">>, safe_uncons, <<"binding1">>)>>,
                   MatchTag("var",
                     <<<<"Sym", Block(<<OpCall(<<"val", "end">>, safe_uncons, <<"vals">>)>>,
                          MatchTag("end",
                            <<<<"Nil", Block(<<OpCall(<<"expanded">>, expand_bindings,
                                                      <<"head", "body", "body1", "rest_bindings">>),
                                               OpCall(<<"cont">>, eval_choose_let_cont,
                                                      <<"head", "var", "env", "expanded", "cont">>)>>,
                                             Return(<<"val", "env", "cont", "ret">>))>>>>,
                            <<ErrB>>))>>>>,
                     <<ErrB>>))>>))>>>>,
          <<ErrB>>))>>))

reduce_begin ==
  Block(<<OpCall(<<"arg1", "more">>, safe_uncons, <<"rest">>)>>,
    MatchTag("more",
      <<<<"Nil", RetB(<<"arg1", "env", "cont", "ret">>)>>>>,
      <<Block(<<OpNull("op2", "Begin"),
                OpCons4("cont", "Binop", <<"op2", "env", "more", "cont">>)>>,
              Return(<<"arg1", "env", "cont", "ret">>))>>))

reduce_eval ==
  Block(<< >>, MatchTag("rest", <<<<"Nil", ErrB>>>>,
    <<Block(<<OpCall(<<"arg1", "more">>, safe_uncons, <<"rest">>)>>,
        MatchTag("more",
          <<<<"Nil", Block(<<OpNull("op1", "Eval"), OpCons2("cont", "Unop", <<"op1", "cont">>)>>,
                           Return(<<"arg1", "env", "cont", "ret">>))>>>>,
          <<Block(<<OpNull("op2", "Eval"),
                    OpCons4("cont", "Binop", <<"op2", "env", "more", "cont">>)>>,
                  Return(<<"arg1", "env", "cont", "ret">>))>>))>>))

reduce_if ==
  Block(<<OpCall(<<"condition", "more">>, safe_uncons, <<"rest">>)>>,
    MatchTag("more",
      <<<<"Nil", RetB(<<"condition", "env", "err", "err">>)>>>>,
      <<Block(<<OpCons2("cont", "If", <<"more", "cont">>)>>,
              Return(<<"condition", "env", "cont", "ret">>))>>))

reduce_current_env ==
  Block(<< >>, MatchTag("rest", <<<<"Nil", RetB(<<"env", "env", "cont", "apply">>)>>>>, <<ErrB>>))

\* reduce, Cons: a function applied to arguments
reduce_apply ==
  Block(<< >>, MatchTag("head",
    <<<<"Fun", Block(<< >>, MatchTag("rest",
         <<<<"Nil", Block(<<OpCons2("cont", "Call0", <<"env", "cont">>)>>,
                          Return(<<"head", "env", "cont", "ret">>))>>,
           <<"Cons", Block(<<OpDecons2(<<"arg", "more_args">>, "rest")>>,
                MatchTag("more_args",
                  <<<<"Nil", Block(<<OpCons3("cont", "Call", <<"arg", "env", "cont">>)>>,
                                   Return(<<"head", "env", "cont", "ret">>))>>>>,
                  <<Block(<<OpCons2("expanded_inner0", "Cons", <<"arg", "nil">>),
                            OpCons2("expanded_inner", "Cons", <<"head", "expanded_inner0">>),
                            OpCons2("expanded", "Cons", <<"expanded_inner", "more_args">>)>>,
                          Return(<<"expanded", "env", "cont", "ret">>))>>))>>>>,
         << >>))>>>>,
    <<ErrB>>))

\* reduce, Cons: binary operators.  The operator that choose_binop yields is
\* bound to _op; the condition and the continuation read op
reduce_binop ==
  Block(<<OpCall(<<"_op">>, choose_binop, <<"head">>)>>,
    IfNotEq("op", "dummy",
      Block(<< >>, MatchTag("rest", <<<<"Nil", ErrB>>>>,
        <<Block(<<OpDecons2(<<"arg1", "more">>, "rest")>>,
            MatchTag("more", <<<<"Nil", ErrB>>>>,
              <<Block(<<OpCons4("cont", "Binop", <<"op", "env", "more", "cont">>)>>,
                      Return(<<"arg1", "env", "cont", "ret">>))>>))>>)),
      reduce_apply))

\* reduce, Cons: unary operators
reduce_unop ==
  Block(<<OpCall(<<"op">>, choose_unop, <<"head">>),
          OpLit("dummy", PSym("dummy"))>>,
    IfNotEq("op", "dummy",
      Block(<< >>, MatchTag("rest", <<<<"Nil", ErrB>>>>,
        <<Block(<<OpDecons2(<<"arg1", "end">>, "rest")>>,
            MatchTag("end",
              <<<<"Nil", Block(<<OpCons2("cont", "Unop", <<"op", "cont">>)>>,
                               Return(<<"arg1", "env", "cont", "ret">>))>>>>,
              <<ErrB>>))>>)),
      reduce_binop))

reduce_cons ==
  Block(<<OpDecons2(<<"head", "rest">>, "expr")>>,
    MatchSymbol("head",
      <<<<"lambda", reduce_lambda>>, <<"quote", reduce_quote>>>>
        \o Alt(<<"let", "letrec">>, reduce_let)
        \o <<<<"begin", reduce_begin>>, <<"eval", reduce_eval>>, <<"if", reduce_if>>,
             <<"current-env", reduce_current_env>>>>,
      <<reduce_unop>>))

\* as reduce_stop, but a stopped evaluation is turned into an error
reduce_stop_err == RetB(<<"expr", "env", "err", "ret">>)

\* reduce on a Terminal or Error continuation
reduce_stop == RetB(<<"expr", "env", "cont", "ret">>)

reduce ==
  Func("reduce", <<"expr", "env", "cont">>, 4,
    Block(<<OpNull("ret", "Return"), OpNull("apply", "ApplyContinuation"),
            OpNull("makethunk", "MakeThunk"), OpNull("err", "Error"), OpNull("nil", "Nil")>>,
      MatchTag("cont",
        Alt(<<"Terminal", "Error">>, reduce_stop),
        <<Block(<< >>, MatchTag("expr",
            Alt(<<"Nil", "Fun", "Num", "Str", "Char", "Comm", "U64", "Key">>,
                RetB(<<"expr", "env", "cont", "apply">>))
              \o <<<<"Thunk", Block(<<OpDecons2(<<"thunk_expr", "thunk_continuation">>, "expr")>>,
                                    Return(<<"thunk_expr", "env", "thunk_continuation",
                                             "makethunk">>))>>,
                   <<"Sym", reduce_sym>>,
                   <<"Cons", reduce_cons>>>>,
            << >>))>>)))

run_binop ==
  Func("run_binop", <<"_operator", "_result", "_evaled_arg", "_env", "_continuation">>, 2,
    Block(<<OpNull("nil", "Nil")>>, Return(<<"nil", "nil">>)))

\* apply_cont, Binop
apply_cont_binop ==
  Block(<<OpDecons4(<<"operator", "saved_env", "unevaled_args", "continuation">>, "cont"),
          OpCall(<<"arg2", "rest">>, safe_uncons, <<"unevaled_args">>)>>,
    MatchTag("operator",
      <<<<"Begin", Block(<< >>, MatchTag("rest",
           <<<<"Nil", RetB(<<"arg2", "saved_env", "continuation", "ret">>)>>>>,
           <<Block(<<OpLit("begin", PSym("begin")),
                     OpCons2("begin_again", "Cons", <<"begin", "unevaled_args">>)>>,
                   Return(<<"begin_again", "saved_env", "continuation", "ctrl">>))>>))>>>>,
      <<Block(<< >>, MatchTag("rest",
          <<<<"Nil", Block(<<OpCons3("cont", "Binop2", <<"operator", "result", "continuation">>)>>,
                           Return(<<"arg2", "saved_env", "cont", "ret">>))>>>>,
          <<RetB(<<"result", "env", "err", "err">>)>>))>>))

apply_cont_binop2 ==
  Block(<<OpDecons3(<<"operator", "evaled_arg", "continuation">>, "cont"),
          OpCall(<<"val", "success">>, run_binop,
                 <<"operator", "result", "evaled_arg", "env", "continuation">>)>>,
    IfEq("success", "nil",
      RetB(<<"result", "env", "err", "err">>),
      RetB(<<"val", "env", "continuation", "makethunk">>)))

apply_cont_if ==
  Block(<<OpDecons2(<<"unevaled_args", "continuation">>, "cont"),
          OpCall(<<"arg1", "more">>, safe_uncons, <<"unevaled_args">>),
          OpCall(<<"arg2", "end">>, safe_uncons, <<"more">>)>>,
    MatchTag("end",
      <<<<"Nil", Block(<< >>, MatchTag("result",
           <<<<"Nil", RetB(<<"arg2", "env", "continuation", "ret">>)>>>>,
           <<RetB(<<"arg1", "env", "continuation", "ret">>)>>))>>>>,
      <<RetB(<<"result", "env", "err", "err">>)>>))

make_tail_continuation ==
  Func("make_tail_continuation", <<"env", "continuation">>, 1,
    Block(<< >>, MatchTag("continuation",
      <<<<"Tail", RetB(<<"continuation">>)>>>>,
      <<Block(<<OpCons2("tail_continuation", "Tail", <<"env", "continuation">>)>>,
              Return(<<"tail_continuation">>))>>)))

extend_rec ==
  Func("extend_rec", <<"env", "var", "result">>, 1,
    Block(<<OpDecons2(<<"binding_or_env", "rest">>, "env"),
            OpDecons2(<<"var_or_binding", "_val_or_more_bindings">>, "binding_or_env"),
            OpCons2("cons", "Cons", <<"var", "result">>)>>,
      MatchTag("var_or_binding",
        Alt(<<"Sym", "Nil">>,
            Block(<<OpNull("nil", "Nil"),
                    OpCons2("list", "Cons", <<"cons", "nil">>),
                    OpCons2("res", "Cons", <<"list", "env">>)>>,
                  Return(<<"res">>)))
          \o <<<<"Cons", Block(<<OpCons2("cons2", "Cons", <<"cons", "binding_or_env">>),
                                 OpCons2("res", "Cons", <<"cons2", "rest">>)>>,
                               Return(<<"res">>))>>>>,
        << >>)))

\* return (result, env, err, err)
ErrR == RetB(<<"result", "env", "err", "err">>)

\* apply_cont, Call0
apply_cont_call0 ==
  Block(<<OpDecons2(<<"saved_env", "continuation">>, "cont")>>,
    MatchTag("result",
      <<<<"Fun", Block(<<OpDecons3(<<"arg", "body", "closed_env">>, "result")>>,
           MatchSymbol("arg",
             <<<<"dummy", Block(<< >>, MatchTag("body", <<<<"Nil", ErrR>>>>,
                  <<Block(<<OpCall(<<"body_form", "end">>, safe_uncons, <<"body">>)>>,
                      MatchTag("end",
                        <<<<"Nil", Block(<<OpCall(<<"cont">>, make_tail_continuation,
                                                  <<"saved_env", "continuation">>)>>,
                                         Return(<<"body_form", "closed_env", "cont", "ret">>))>>>>,
                        <<ErrR>>))>>))>>>>,
             <<RetB(<<"result", "env", "continuation", "ret">>)>>))>>>>,
      <<ErrR>>))

\* apply_cont, Call
apply_cont_call ==
  Block(<< >>, MatchTag("result",
    <<<<"Fun", Block(<<OpDecons3(<<"unevaled_arg", "saved_env", "continuation">>, "cont"),
                       OpCons3("newer_cont", "Call2", <<"result", "saved_env", "continuation">>)>>,
                     Return(<<"unevaled_arg", "env", "newer_cont", "ret">>))>>>>,
    <<ErrR>>))

\* apply_cont, Call2
apply_cont_call2 ==
  Block(<<OpDecons3(<<"function", "saved_env", "continuation">>, "cont")>>,
    MatchTag("function",
      <<<<"Fun", Block(<<OpDecons3(<<"arg", "body", "closed_env">>, "function")>>,
           MatchSymbol("arg", <<<<"dummy", ErrR>>>>,
             <<Block(<< >>, MatchTag("body", <<<<"Nil", ErrR>>>>,
                 <<Block(<<OpDecons2(<<"body_form", "end">>, "body")>>,
                     MatchTag("end",
                       <<<<"Nil", Block(<<OpCons2("binding", "Cons", <<"arg", "result">>),
                                          OpCons2("newer_env", "Cons", <<"binding", "closed_env">>),
                                          OpCall(<<"cont">>, make_tail_continuation,
                                                 <<"saved_env", "continuation">>)>>,
                                        Return(<<"body_form", "newer_env", "cont", "ret">>))>>>>,
                       <<ErrR>>))>>))>>))>>>>,
      <<ErrR>>))

\* apply_cont, Let
apply_cont_let ==
  Block(<<OpDecons4(<<"var", "body", "saved_env", "cont">>, "cont"),
          OpCons2("binding", "Cons", <<"var", "result">>),
          OpCons2("extended_env", "Cons", <<"binding", "env">>),
          OpCall(<<"cont">>, make_tail_continuation, <<"saved_env", "cont">>)>>,
        Return(<<"body", "extended_env", "cont", "ret">>))

\* apply_cont, LetRec
apply_cont_letrec ==
  Block(<<OpDecons4(<<"var", "body", "saved_env", "cont">>, "cont"),
          OpCall(<<"extended_env">>, extend_rec, <<"env", "var", "result">>),
          OpCall(<<"cont">>, make_tail_continuation, <<"saved_env", "cont">>)>>,
        Return(<<"body", "extended_env", "cont", "ret">>))

\* apply_cont, Unop
apply_cont_unop ==
  Block(<<OpDecons2(<<"operator", "continuation">>, "cont")>>,
    MatchTag("operator",
      <<<<"Car", Block(<<OpDecons2(<<"car", "_cdr">>, "result")>>,
                       Return(<<"car", "env", "continuation", "makethunk">>))>>,
        <<"Cdr", Block(<<OpDecons2(<<"_car", "cdr">>, "result")>>,
                       Return(<<"cdr", "env", "continuation", "makethunk">>))>>,
        <<"Atom", Block(<< >>, MatchTag("result",
                    <<<<"Cons", RetB(<<"nil", "env", "continuation", "makethunk">>)>>>>,
                    <<RetB(<<"t", "env", "continuation", "makethunk">>)>>))>>,
        <<"Emit", Block(<<OpCons2("emit", "Emit", <<"cont", "nil">>)>>,
                        Return(<<"result", "env", "emit", "makethunk">>))>>,
        <<"Open", Block(<<OpOpen("_secret", "payload", "result")>>,
                        Return(<<"payload", "env", "continuation", "makethunk">>))>>,
        <<"Secret", Block(<<OpOpen("secret", "_payload", "result")>>,
                          Return(<<"secret", "env", "continuation", "makethunk">>))>>,
        <<"Commit", Block(<<OpNull("nil", "Nil"), OpHide("comm", "nil", "result")>>,
                          Return(<<"comm", "env", "continuation", "makethunk">>))>>>>
        \o Alt(<<"Num", "U64", "Comm", "Char", "Eval">>, ErrR),
      <<ErrR>>))

\* as apply_cont_outermost, but the continuation stays Outermost
apply_cont_outermost_stays == RetB(<<"result", "env", "cont", "ret">>)

\* apply_cont on the Outermost continuation
apply_cont_outermost ==
  Block(<<OpNull("cont", "Terminal")>>, Return(<<"result", "env", "cont", "ret">>))

apply_cont ==
  Func("apply_cont", <<"result", "env", "cont", "ctrl">>, 4,
    Block(<<OpNull("ret", "Return"), OpNull("makethunk", "MakeThunk"), OpNull("err", "Error"),
            OpNull("nil", "Nil"), OpLit("t", PSym("t"))>>,
      MatchTag("ctrl",
        <<<<"ApplyContinuation", Block(<< >>, MatchTag("cont",
             Alt(<<"Terminal", "Error">>, RetB(<<"result", "env", "cont", "ret">>))
               \o <<<<"Outermost", apply_cont_outermost>>,
                    <<"Emit", Block(<<OpDecons2(<<"cont", "_rest">>, "cont")>>,
                                    Return(<<"result", "env", "cont", "makethunk">>))>>,
                    <<"Call0", apply_cont_call0>>,
                    <<"Call", apply_cont_call>>,
                    <<"Call2", apply_cont_call2>>,
                    <<"Let", apply_cont_let>>,
                    <<"LetRec", apply_cont_letrec>>,
                    <<"Unop", apply_cont_unop>>,
                    <<"Binop", apply_cont_binop>>,
                    <<"Binop2", apply_cont_binop2>>,
                    <<"If", apply_cont_if>>>>
               \o Alt(<<"Lookup", "Tail">>,
                      Block(<<OpDecons2(<<"saved_env", "continuation">>, "cont")>>,
                            Return(<<"result", "saved_env", "continuation", "makethunk">>))),
             << >>))>>>>,
        <<RetB(<<"result", "env", "cont", "ctrl">>)>>)))

eval_make_thunk ==
  Func("make_thunk", <<"expr", "env", "cont", "ctrl">>, 4,
    Block(<<OpNull("ret", "Return")>>,
      MatchTag("ctrl",
        <<<<"MakeThunk", Block(<< >>, MatchTag("cont",
             <<<<"Tail", Block(<<OpDecons2(<<"saved_env", "saved_cont">>, "cont"),
                                 OpCons2("thunk", "Thunk", <<"expr", "saved_cont">>),
                                 OpNull("cont", "Dummy")>>,
                               Return(<<"thunk", "saved_env", "cont", "ret">>))>>,
               <<"Outermost", Block(<<OpNull("cont", "Terminal")>>,
                                    Return(<<"expr", "env", "cont", "ret">>))>>>>,
             <<Block(<<OpCons2("thunk", "Thunk", <<"expr", "cont">>), OpNull("cont", "Dummy")>>,
                     Return(<<"thunk", "env", "cont", "ret">>))>>))>>>>,
        <<RetB(<<"expr", "env", "cont", "ctrl">>)>>)))

\* Lurk's step function
eval_step ==
  Func("eval_step", <<"expr", "env", "cont">>, 3,
    Block(<<OpCall(<<"expr", "env", "cont", "ctrl">>, reduce, <<"expr", "env", "cont">>),
            OpCall(<<"expr", "env", "cont", "ctrl">>, apply_cont, <<"expr", "env", "cont", "ctrl">>),
            OpCall(<<"expr", "env", "cont", "_ctrl">>, eval_make_thunk,
                   <<"expr", "env", "cont", "ctrl">>)>>,
      Return(<<"expr", "env", "cont">>)))

\* the expressions, environments and continuations that evaluations start from
EvNil == PNull("Nil")
RECURSIVE EvList(_)
EvList(xs) == IF xs = << >> THEN EvNil ELSE PCons2("Cons", Head(xs), EvList(Tail(xs)))
EvAtoms ==
  {EvNil, PNum(1), PNum(2), PNull("Str"), PChar(97), ZPtr("Comm", Fe(5)), ZPtr("U64", Fe(7)),
   ZPtr("Key", <<"S", "k">>), PCons3("Fun", PSym("x"), EvList(<<PSym("x")>>), EvNil)}
EvSyms == {PSym("nil"), PSym("t"), PSym("x"), PSym("y")}
MaxArgs == 3
EvArgs == {SubSeq(<<PNum(1), PSym("x"), PNum(2)>>, 1, n) : n \in 0..MaxArgs}
EvHeads ==
  {BinopTable[i][1] : i \in DOMAIN BinopTable}
    \cup {"car", "atom", "commit", "quote", "if", "begin", "current-env"}
EvForms == {EvList(<<PSym(h)>> \o args) : h \in EvHeads, args \in EvArgs}
EvLets ==
  {EvList(<<PSym(h), EvList(<<EvList(<<PSym("y"), PNum(2)>>)>>), PSym("y")>>) :
     h \in {"let", "letrec"}}
EvExprs ==
  EvAtoms \cup EvSyms \cup EvForms \cup EvLets
    \cup {PCons2("Thunk", PNum(1), PNull("Outermost"))}
EvEnvs == {EvNil, EvList(<<PCons2("Cons", PSym("x"), PNum(1))>>)}
EvConts == {PNull("Outermost"), PCons2("Tail", EvNil, PNull("Outermost"))}
\* states of an evaluation that has stopped
EvStopped ==
  {<<e, v, PNull(k)>> :
     e \in EvAtoms \cup EvSyms \cup {EvList(<<PSym("+"), PNum(1), PSym("x")>>)},
     v \in EvEnvs, k \in {"Terminal", "Error"}}
\* results that meet a continuation left by an earlier step
EvFuns ==
  {PCons3("Fun", PSym(a), EvList(<<PSym("x")>>), EvNil) : a \in {"x", "dummy"}}
EvPending ==
  {PCons2("Lookup", EvNil, PNull("Outermost")),
   PCons2("Call0", EvNil, PNull("Outermost")),
   PCons3("Call", PNum(2), EvNil, PNull("Outermost"))}
    \cup {PCons3("Call2", f, EvNil, PNull("Outermost")) : f \in EvFuns}
EvalInputs ==
  {<<e, v, k>> : e \in EvExprs, v \in EvEnvs, k \in EvConts}
    \cup EvStopped
    \cup {<<e, EvNil, k>> : e \in EvFuns \cup {PNum(1)}, k \in EvPending}
MaxSteps == 3

\* one application of the step function, and of reduce alone, to a state
EvalApply(state, n) ==
  /\ ev_input' = <<state>>
  /\ ev_reduced' = call_simple(reduce, state)
  /\ ev_frame' = call_simple(eval_step, state)
  /\ ev_steps' = n
  /\ UNCHANGED <<synthvars, slotvars, mfvars, labvars, buildvars, nivcvars>>

EvalStart(input) ==
  /\ ev_input = << >>
  /\ EvalApply(input, 1)

\* the next step starts from the output of the last
EvalNext ==
  /\ ev_frame # << >>
  /\ ev_steps < MaxSteps
  /\ EvalApply(ev_frame[1].output, ev_steps + 1)

EvalDrop ==
  /\ ev_input # << >>
  /\ ev_input' = << >>
  /\ ev_reduced' = << >>
  /\ ev_frame' = << >>
  /\ ev_steps' = 0
  /\ UNCHANGED <<synthvars, slotvars, mfvars, labvars, buildvars, nivcvars>>

NextEval ==
  \/ \E input \in EvalInputs : EvalStart(input)
  \/ EvalNext
  \/ EvalDrop

SpecEval == Init /\ [][NextEval]_vars

\* the Func in the laboratory, its first Op and the pointers the circuit of
\* DumbCoprocessor yields for the arguments of that Op
LabFunc == LabFuncs[lab_func].func
CprocFirst ==
  /\ lab_func # 0
  /\ lab_cs # << >>
  /\ ~lab_frame[1].blank
  /\ Len(lab_frame[1].input) = Len(LabFunc.input_params)
  /\ LabFunc.body.ops # << >>
  /\ LabFunc.body.ops[1].op = "Cproc"
  /\ lab_frame[1].hints.cproc_outputs # << >>
CprocArgs == GetMany(BindMany(<< >>, LabFunc.input_params, lab_frame[1].input),
                     LabFunc.body.ops[1].inp)
CprocYield ==
  <<[tag |-> to_field("Num"),
     val |-> FAdd(FMul(CprocArgs[1].val, CprocArgs[1].val), CprocArgs[2].val)],
    CprocArgs[3], CprocArgs[4]>>

\* C14: on the concrete path of a Frame that is not blank, a coprocessor Op
\* whose number of output Vars differs from the length of the recorded hint
\* makes synthesis fail with an error; so does a coprocessor circuit that yields
\* a pointer whose tag or hash differs from the hint; the outputs of a
\* coprocessor without a circuit are bound to variables allocated by the Op
\* that hold the tags and hashes of the hint.
C14_CprocChecked ==
  CprocFirst =>
    LET op == LabFunc.body.ops[1]
        hint == lab_frame[1].hints.cproc_outputs[1]
        s == lab_cs[1]
    IN /\ Len(op.out) # Len(hint) => s.err = "error"
       /\ (lang[op.sym].has_circuit /\ Len(op.out) = Len(hint) /\ hint # CprocYield)
             => s.err = "error"
       /\ (~lang[op.sym].has_circuit /\ Len(op.out) = Len(hint))
             => \A i \in DOMAIN op.out :
                   /\ op.out[i] \in DOMAIN s.env
                   /\ s.env[op.out[i]].tag.id = s.body_start + 2 * i - 1
                   /\ s.env[op.out[i]].hash.id = s.body_start + 2 * i
                   /\ s.aux[s.env[op.out[i]].tag.id] = hint[i].tag
                   /\ s.aux[s.env[op.out[i]].hash.id] = hint[i].val
                   /\ s.env[op.out[i]].tag.v = hint[i].tag
                   /\ s.env[op.out[i]].hash.v = hint[i].val

\* the circuit of DumbCoprocessor yields another hash than the hint holds
C14_Witness ==
  /\ CprocFirst
  /\ lang[LabFunc.body.ops[1].sym].has_circuit
  /\ Len(lab_frame[1].hints.cproc_outputs[1]) = 3
  /\ lab_frame[1].hints.cproc_outputs[1][1].tag = CprocYield[1].tag
  /\ lab_frame[1].hints.cproc_outputs[1][1].val # CprocYield[1].val
  /\ lab_cs[1].err = "error"

\* the hint is shorter than the declared outputs
C14_LengthWitness ==
  /\ CprocFirst
  /\ Len(lab_frame[1].hints.cproc_outputs[1]) = 2
  /\ lab_cs[1].err = "error"

\* no circuit: the outputs are the hint, whatever it holds
C14_HintedWitness ==
  /\ CprocFirst
  /\ ~lang[LabFunc.body.ops[1].sym].has_circuit
  /\ lab_frame[1].hints.cproc_outputs[1] # CprocYield
  /\ Len(lab_frame[1].hints.cproc_outputs[1]) = 3
  /\ lab_cs[1].err = ""
  /\ lab_cs[1].env["x"].hash.v = lab_frame[1].hints.cproc_outputs[1][1].val

\* C15: a Func that refers to a Var never bound, or bound to a boolean where a
\* pointer is read or to a pointer where a boolean is read, is not synthesized
\* for any Frame, blank or not, whether the reference lies on the concrete path
\* or on a virtual one: synthesis ends in an error, and nothing was bound in
\* place of the missing value.
C15_BadReferenceAborts ==
  (lab_func # 0 /\ lab_cs # << >> /\ LabFuncs[lab_func].ill)
    => /\ lab_cs[1].err = "error"
       /\ \A v \in LabFuncs[lab_func].never : v \notin DOMAIN lab_cs[1].env

\* the bad reference is on a virtual path: the input is not a Num
C15_Witness ==
  /\ lab_func # 0
  /\ lab_cs # << >>
  /\ LabFuncs[lab_func].ill
  /\ ~lab_frame[1].blank
  /\ lab_frame[1].input[1].tag # to_field("Num")
  /\ lab_cs[1].err = "error"

\* the bad reference is on the concrete path
C15_ConcreteWitness ==
  /\ lab_func # 0
  /\ lab_cs # << >>
  /\ LabFuncs[lab_func].ill
  /\ ~lab_frame[1].blank
  /\ lab_frame[1].input[1].tag = to_field("Num")
  /\ lab_cs[1].err = "error"

\* the Func interpreted is a single match on its first input
Picking ==
  /\ lab_func # 0
  /\ lab_input # << >>
  /\ LabFunc.name \in {"pick_tag", "pick_tag_default", "pick_symbol", "pick_symbol_default"}
  /\ LabFunc.body.ctrl.ctrl = "MatchSymbol" => lab_input[1][1].tag = to_field("Sym")

\* the cases whose tag or symbol is that of the matched pointer
PickCases ==
  {i \in DOMAIN LabFunc.body.ctrl.cases :
     IF LabFunc.body.ctrl.ctrl = "MatchTag"
     THEN to_field(LabFunc.body.ctrl.cases[i][1]) = lab_input[1][1].tag
     ELSE PSym(LabFunc.body.ctrl.cases[i][1]) = lab_input[1][1]}

PickOutput(block) == <<block.ops[1].lit, lab_input[1][2], lab_input[1][3]>>

\* C16: interpreting a MatchTag or a MatchSymbol runs the one case whose tag
\* or symbol is that of the matched pointer, the default when there is no such
\* case, and gives no Frame when there is neither.
C16_MatchOrAbort ==
  Picking =>
    /\ Cardinality(PickCases) <= 1
    /\ \A i \in PickCases :
          /\ lab_frame # << >>
          /\ lab_frame[1].output = PickOutput(LabFunc.body.ctrl.cases[i][2])
    /\ (PickCases = {} /\ LabFunc.body.ctrl.def # << >>)
          => /\ lab_frame # << >>
             /\ lab_frame[1].output = PickOutput(LabFunc.body.ctrl.def[1])
    /\ (PickCases = {} /\ LabFunc.body.ctrl.def = << >>) => lab_frame = << >>

\* no case for the tag or symbol and no default: no Frame
C16_Witness ==
  /\ Picking
  /\ PickCases = {}
  /\ LabFunc.body.ctrl.def = << >>
  /\ LabFunc.body.ctrl.ctrl = "MatchSymbol"
  /\ lab_frame = << >>

\* a case is taken although there is a default
C16_CaseWitness ==
  /\ Picking
  /\ PickCases # {}
  /\ LabFunc.body.ctrl.def # << >>
  /\ lab_frame # << >>
  /\ lab_frame[1].output[1] = PNum(1)

\* ------------------------------------------------------------------------
\* Building a Func: func! hands the statements of its body to block!, which
\* collects the Ops up to the control statement that ends the block, and the
\* Block to Func::new.  A statement list is a sequence of tokens; the cases
\* of a match and the true block of an if hold statement lists of their own,
\* and what follows an if, or a match closed by a semicolon, is the false
\* block or the default.
\* ------------------------------------------------------------------------
LetTok(op) == [k |-> "let", op |-> op]
ReturnTok(vs) == [k |-> "return", vars |-> vs]
MatchTok(v, cases, semi) == [k |-> "match", v |-> v, cases |-> cases, semi |-> semi]
IfTok(x, y, t) == [k |-> "if", x |-> x, y |-> y, t |-> t]

NoBlock == [ok |-> FALSE, block |-> << >>]
SomeBlock(b) == [ok |-> TRUE, block |-> b]

\* a statement list that ends without control statement returns the inputs
seq_end_implicit(limbs) == SomeBlock(Block(limbs, Return(IO3)))

\* block!(@seq {limbs}): compile_error!("You must provide Func with a return at each path!")
seq_end(limbs) == NoBlock

RECURSIVE block_seq(_, _)
RECURSIVE block_cases(_, _)

\* ctrl!(match ..): one Block per case; a repeated tag panics
block_cases(cases, i) ==
  IF i > Len(cases) THEN [ok |-> TRUE, cases |-> << >>]
  ELSE     Let([b \in {block_seq(<< >>, cases[i][2])} |->
           Let([rest \in {block_cases(cases, i + 1)} |->
          IF ~b.ok \/ ~rest.ok \/ (\E j \in (i + 1)..Len(cases) : cases[j][1] = cases[i][1])
          THEN [ok |-> FALSE, cases |-> << >>]
          ELSE [ok |-> TRUE, cases |-> <<<<cases[i][1], b.block>>>> \o rest.cases]])])

\* block!(@seq {limbs}, tokens)
block_seq(limbs, toks) ==
  IF toks = << >> THEN seq_end(limbs)
  ELSE
        Let([tok \in {Head(toks)} |->
        Let([tail \in {Tail(toks)} |->
       CASE tok.k = "let" -> block_seq(Append(limbs, tok.op), tail)
         [] tok.k = "return" ->
              IF tail # << >> THEN NoBlock ELSE SomeBlock(Block(limbs, Return(tok.vars)))
         [] tok.k = "match" ->
              IF ~tok.semi /\ tail # << >> THEN NoBlock
              ELSE     Let([cs0 \in {block_cases(tok.cases, 1)} |->
                       Let([def \in {IF tok.semi THEN block_seq(<< >>, tail) ELSE NoBlock} |->
                      IF ~cs0.ok \/ (tok.semi /\ ~def.ok) THEN NoBlock
                      ELSE SomeBlock(Block(limbs,
                             MatchTag(tok.v, cs0.cases,
                                      IF tok.semi THEN <<def.block>> ELSE << >>)))])])
         [] tok.k = "if" ->
                  Let([tb \in {block_seq(<< >>, tok.t)} |->
                  Let([fb \in {block_seq(<< >>, tail)} |->
                 IF ~tb.ok \/ ~fb.ok THEN NoBlock
                 ELSE SomeBlock(Block(limbs, IfEq(tok.x, tok.y, tb.block, fb.block)))])])])])

\* every Return of the block lists n Vars
RECURSIVE ReturnsOfSize(_, _)
ReturnsOfSize(block, n) ==
      Let([c \in {block.ctrl} |->
     CASE c.ctrl = "Return" -> Len(c.vars) = n
       [] c.ctrl \in {"If", "IfEq"} -> ReturnsOfSize(c.t, n) /\ ReturnsOfSize(c.f, n)
       [] c.ctrl \in {"MatchTag", "MatchSymbol"} ->
            /\ \A i \in DOMAIN c.cases : ReturnsOfSize(c.cases[i][2], n)
            /\ c.def # << >> => ReturnsOfSize(c.def[1], n)])

\* the sum of the values of a function
RECURSIVE FoldSum(_)
FoldSum(f) ==
  IF DOMAIN f = {} THEN 0
  ELSE     Let([x \in {CHOOSE x \in DOMAIN f : TRUE} |->
          f[x] + FoldSum([y \in DOMAIN f \ {x} |-> f[y]])])

\* Deconfliction.  A Var bound by an Op is renamed to its name behind the path
\* of the block that binds it (t bound under the case Num is Num.t); map takes
\* the names in scope to their new names and starts with the inputs, which map
\* to themselves.  Binding a name that is in scope, or reading one that is
\* not, is an error.
UseFields(op) ==
  ({"a", "b", "src", "comm"} \cap DOMAIN op)
    \cup (IF op.op = "Hide" THEN {"sec", "pay"} ELSE {})
    \cup (IF op.op \in {"Decons2", "Decons3", "Decons4"} THEN {"img"} ELSE {})
UseSeqFields(op) ==
  ({"inp"} \cap DOMAIN op) \cup (IF op.op \in {"Cons2", "Cons3", "Cons4"} THEN {"preimg"} ELSE {})
DefFields(op) ==
  ({"tgt"} \cap DOMAIN op)
    \cup (IF op.op = "Open" THEN {"sec", "pay"} ELSE {})
    \cup (IF op.op \in {"Cons2", "Cons3", "Cons4"} THEN {"img"} ELSE {})
DefSeqFields(op) ==
  ({"out"} \cap DOMAIN op)
    \cup (IF op.op \in {"Decons2", "Decons3", "Decons4"} THEN {"preimg"} ELSE {})

\* the Vars an Op reads and the Vars it binds
OpUses(op) ==
  {op[f] : f \in UseFields(op)} \cup UNION {{op[f][i] : i \in DOMAIN op[f]} : f \in UseSeqFields(op)}
OpDefs(op) ==
  {op[f] : f \in DefFields(op)} \cup UNION {{op[f][i] : i \in DOMAIN op[f]} : f \in DefSeqFields(op)}
OpDefCount(op) ==
  Cardinality(DefFields(op)) + FoldSum([f \in DefSeqFields(op) |-> Len(op[f])])

\* insert_one: the new name of a Var bound under path
new_name(path, var) == path \o var

\* one Op with the Vars it reads looked up and the Vars it binds renamed
deconflict_op(op, path, map) ==
  [f \in DOMAIN op |->
     IF f \in UseFields(op) THEN map[op[f]]
     ELSE IF f \in UseSeqFields(op) THEN [i \in DOMAIN op[f] |-> map[op[f][i]]]
     ELSE IF f \in DefFields(op) THEN new_name(path, op[f])
     ELSE IF f \in DefSeqFields(op) THEN [i \in DOMAIN op[f] |-> new_name(path, op[f][i])]
     ELSE op[f]]

RECURSIVE deconflict_ops(_, _, _)
deconflict_ops(ops, path, map) ==
  IF ops = << >> THEN [ok |-> TRUE, ops |-> << >>, map |-> map]
  ELSE     Let([op \in {Head(ops)} |->
          IF \/ ~(OpUses(op) \subseteq DOMAIN map)
             \/ OpDefs(op) \cap DOMAIN map # {}
             \/ Cardinality(OpDefs(op)) # OpDefCount(op)
          THEN [ok |-> FALSE, ops |-> << >>, map |-> map]
          ELSE     Let([rest \in {deconflict_ops(Tail(ops), path,
                                     [v \in OpDefs(op) |-> new_name(path, v)] @@ map)} |->
                  [rest EXCEPT !.ops = <<deconflict_op(op, path, map)>> \o @]])])

RECURSIVE deconflict(_, _, _)
RECURSIVE deconflict_cases(_, _, _, _)
deconflict_cases(cases, path, map, i) ==
  IF i > Len(cases) THEN [ok |-> TRUE, cases |-> << >>]
  ELSE     Let([b \in {deconflict(cases[i][2], path \o cases[i][1] \o ".", map)} |->
           Let([rest \in {deconflict_cases(cases, path, map, i + 1)} |->
          IF ~b.ok \/ ~rest.ok THEN [ok |-> FALSE, cases |-> << >>]
          ELSE [ok |-> TRUE, cases |-> <<<<cases[i][1], b.block>>>> \o rest.cases]])])

\* LEMOP::deconflict(path, map)
deconflict(block, path, map0) ==
      Let([r \in {deconflict_ops(block.ops, path, map0)} |->
      Let([c \in {block.ctrl} |->
      Let([map \in {r.map} |->
     IF ~r.ok THEN NoBlock
     ELSE CASE c.ctrl = "Return" ->
                 IF \E i \in DOMAIN c.vars : c.vars[i] \notin DOMAIN map THEN NoBlock
                 ELSE SomeBlock(Block(r.ops, Return([i \in DOMAIN c.vars |-> map[c.vars[i]]])))
            [] c.ctrl = "MatchTag" ->
                 IF c.v \notin DOMAIN map THEN NoBlock
                 ELSE     Let([cs0 \in {deconflict_cases(c.cases, path, map, 1)} |->
                          Let([def \in {IF c.def = << >> THEN NoBlock
                                         ELSE deconflict(c.def[1], path \o "_.", map)} |->
                         IF ~cs0.ok \/ (c.def # << >> /\ ~def.ok) THEN NoBlock
                         ELSE SomeBlock(Block(r.ops,
                                MatchTag(map[c.v], cs0.cases,
                                         IF c.def = << >> THEN << >> ELSE <<def.block>>)))])])
            [] c.ctrl = "IfEq" ->
                 IF c.x \notin DOMAIN map \/ c.y \notin DOMAIN map THEN NoBlock
                 ELSE     Let([tb \in {deconflict(c.t, path \o "true.", map)} |->
                          Let([fb \in {deconflict(c.f, path \o "false.", map)} |->
                         IF ~tb.ok \/ ~fb.ok THEN NoBlock
                         ELSE SomeBlock(Block(r.ops, IfEq(map[c.x], map[c.y],
                                                          tb.block, fb.block)))])])])])])

\* a construction that keeps every name as written
LEM_new_as_written(input, lem_op) == SomeBlock(lem_op)

\* LEM::new: the body deconflicted from the empty path, the inputs mapped to themselves
LEM_new(input, lem_op) ==
  deconflict(lem_op, "", [v \in {input[i] : i \in DOMAIN input} |-> v])

\* Func::new: a Func with its body deconflicted, or an error when a Return has
\* not output_size Vars
Func_new(input_params, output_size, body) ==
  IF ~ReturnsOfSize(body, output_size) THEN [ok |-> FALSE, func |-> << >>]
  ELSE     Let([b \in {LEM_new(input_params, body)} |->
          IF ~b.ok THEN [ok |-> FALSE, func |-> << >>]
          ELSE [ok |-> TRUE, func |-> Func("built", input_params, output_size, b.block)]])

\* func!((in): size => { tokens }): Func::new(in, size, block!(..)).unwrap()
func_macro(input_params, output_size, toks) ==
      Let([b \in {block_seq(<< >>, toks)} |->
     IF ~b.ok THEN [ok |-> FALSE, func |-> << >>]
     ELSE Func_new(input_params, output_size, b.block)])

\* the bodies tried: statement lists with and without a final return, returns
\* of two and of three Vars, alone and under a match or an if
LetT == LetTok(OpNull("t", "Terminal"))
Leaves ==
  {<< >>, <<LetT>>, <<ReturnTok(IO3)>>, <<LetT, ReturnTok(<<"expr_in", "env_in", "t">>)>>,
   <<ReturnTok(<<"expr_in", "env_in">>)>>, <<ReturnTok(IO3), LetT>>}
\* two branches that bind the same name to different pointers, at two depths
LetE == LetTok(OpNull("t", "Error"))
LetU(tag) == LetTok(OpNull("u", tag))
Clashes ==
  {<<MatchTok("expr_in",
              <<<<"Num", <<LetT, MatchTok("env_in",
                                  <<<<"Num", <<LetU("Terminal"), ReturnTok(<<"t", "u", "cont_in">>)>>>>,
                                    <<"Cons", <<LetU("Error"), ReturnTok(<<"u", "t", "cont_in">>)>>>>>>,
                                  TRUE),
                           LetU("Dummy"), ReturnTok(<<"u", "u", "t">>)>>>>,
                <<"Cons", <<LetE, LetU("Outermost"), ReturnTok(<<"t", "u", "cont_in">>)>>>>>>,
              TRUE),
     LetE, ReturnTok(<<"expr_in", "env_in", "t">>)>>,
   <<MatchTok("expr_in",
              <<<<"Num", <<LetTok(OpNull("expr_in", "Terminal")), ReturnTok(IO3)>>>>>>, TRUE),
     ReturnTok(IO3)>>,
   <<LetT, MatchTok("expr_in", <<<<"Num", <<LetE, ReturnTok(<<"t", "t", "t">>)>>>>>>, TRUE),
     ReturnTok(<<"t", "t", "t">>)>>}

Nested ==
  Leaves \cup {<<IfTok("expr_in", "env_in", <<ReturnTok(IO3)>>), ReturnTok(IO3)>>,
               <<MatchTok("env_in", <<<<"Num", <<ReturnTok(IO3)>>>>>>, TRUE)>>}
CaseLists ==
  {<<<<"Num", a>>>> : a \in Nested} \cup {<<<<"Num", a>>, <<"Cons", b>>>> : a, b \in Leaves}
    \cup {<< >>, <<<<"Num", <<ReturnTok(IO3)>>>>, <<"Num", <<ReturnTok(IO3)>>>>>>}
Bodies ==
  Nested \cup Clashes
    \cup {<<MatchTok("expr_in", cases, semi)>> \o rest :
            cases \in CaseLists, semi \in BOOLEAN, rest \in Leaves}
    \cup {<<LetT, IfTok("expr_in", "env_in", a)>> \o rest : a \in Nested, rest \in Leaves}

Build(toks) ==
  /\ built = << >>
  /\ built' = <<[toks |-> toks, output_size |-> Len(IO3),
                 res |-> func_macro(IO3, Len(IO3), toks),
                 input |-> << >>, frame |-> << >>, cs |-> << >>]>>
  /\ UNCHANGED <<synthvars, slotvars, mfvars, labvars, evalvars, nivcvars>>

\* the Ctrls of the block are those the interpreter and the synthesizer walk
RECURSIVE Walkable(_)
Walkable(block) ==
  CASE block.ctrl.ctrl = "Return" -> TRUE
    [] block.ctrl.ctrl = "IfEq" -> FALSE
    [] block.ctrl.ctrl = "MatchTag" ->
         /\ \A i \in DOMAIN block.ctrl.cases : Walkable(block.ctrl.cases[i][2])
         /\ block.ctrl.def # << >> => Walkable(block.ctrl.def[1])

TryInputs ==
  {<<e, v, PNull("Outermost")>> : e \in {PNum(3), ConsPair, PSym("let")}, v \in {PNum(5), ConsPair}}

\* interpret the Func that was built on an input and synthesize the Frame
Try(input) ==
  /\ built # << >>
  /\ built[1].res.ok
  /\ built[1].input = << >>
  /\ Walkable(built[1].res.func.body)
  /\ built' = <<[built[1] EXCEPT
                    !.input = <<input>>,
                    !.frame = call_simple(built[1].res.func, input),
                    !.cs = IF call_simple(built[1].res.func, input) = << >> THEN << >>
                           ELSE <<synthesize_frame_aux(built[1].res.func,
                                                       call_simple(built[1].res.func, input)[1])>>]>>
  /\ UNCHANGED <<synthvars, slotvars, mfvars, labvars, evalvars, nivcvars>>

Discard ==
  /\ built # << >>
  /\ built' = << >>
  /\ UNCHANGED <<synthvars, slotvars, mfvars, labvars, evalvars, nivcvars>>

NextBuild ==
  \/ \E toks \in Bodies : Build(toks)
  \/ \E input \in TryInputs : Try(input)
  \/ Discard

SpecBuild == Init /\ [][NextBuild]_vars

\* a statement list has a control path that ends without return or in a
\* return of another number of Vars than n
RECURSIVE BadPath(_, _)
BadPath(toks, n) ==
  IF toks = << >> THEN TRUE
  ELSE CASE Head(toks).k = "let" -> BadPath(Tail(toks), n)
         [] Head(toks).k = "return" -> Len(Head(toks).vars) # n
         [] Head(toks).k = "match" ->
              \/ \E i \in DOMAIN Head(toks).cases : BadPath(Head(toks).cases[i][2], n)
              \/ Head(toks).semi /\ BadPath(Tail(toks), n)
         [] Head(toks).k = "if" -> BadPath(Head(toks).t, n) \/ BadPath(Tail(toks), n)

\* the Returns at the end of the control paths of a Block, one entry per path
RECURSIVE PathEnds(_)
RECURSIVE CasesEnds(_, _)
CasesEnds(cases, i) ==
  IF i > Len(cases) THEN << >> ELSE PathEnds(cases[i][2]) \o CasesEnds(cases, i + 1)
PathEnds(block) ==
  CASE block.ctrl.ctrl = "Return" -> <<block.ctrl.vars>>
    [] block.ctrl.ctrl = "IfEq" -> PathEnds(block.ctrl.t) \o PathEnds(block.ctrl.f)
    [] block.ctrl.ctrl = "MatchTag" ->
         CasesEnds(block.ctrl.cases, 1)
           \o (IF block.ctrl.def = << >> THEN << >> ELSE PathEnds(block.ctrl.def[1]))

\* C17: a Func that was built has a Return of output_size Vars at the end of
\* each control path of its body, and a body with a control path that ends
\* without Return, or in a Return of another number of Vars, is not built.
C17_OneReturnPerPath ==
  built # << >> =>
    /\ BadPath(built[1].toks, built[1].output_size) => ~built[1].res.ok
    /\ built[1].res.ok =>
          \A i \in DOMAIN PathEnds(built[1].res.func.body) :
             Len(PathEnds(built[1].res.func.body)[i]) = built[1].res.func.output_size

\* a match whose default, the statements after the semicolon, has no return
C17_Witness ==
  /\ built # << >>
  /\ built[1].toks # << >>
  /\ Head(built[1].toks).k = "match"
  /\ Head(built[1].toks).semi
  /\ Len(Head(built[1].toks).cases) = 2
  /\ \A i \in 1..2 : ~BadPath(Head(built[1].toks).cases[i][2], 3)
  /\ BadPath(Tail(built[1].toks), 3)
  /\ ~built[1].res.ok

\* a Func is built: three paths, each with its Return
C17_BuiltWitness ==
  /\ built # << >>
  /\ built[1].res.ok
  /\ Len(PathEnds(built[1].res.func.body)) = 3

\* a Return of two Vars where three are declared
C17_ArityWitness ==
  /\ built # << >>
  /\ built[1].toks = <<ReturnTok(<<"expr_in", "env_in">>)>>
  /\ ~built[1].res.ok

\* the Vars bound by the Ops of a Block and of the Blocks under it, one entry
\* per binding
RECURSIVE AllDefs(_)
RECURSIVE CasesDefs(_, _)
RECURSIVE OpsDefs(_)
RECURSIVE SeqOfSet(_)
SeqOfSet(S) ==
  IF S = {} THEN << >>
  ELSE     Let([x \in {CHOOSE x \in S : TRUE} |-> <<x>> \o SeqOfSet(S \ {x})])
OpsDefs(ops) ==
  IF ops = << >> THEN << >> ELSE SeqOfSet(OpDefs(Head(ops))) \o OpsDefs(Tail(ops))
CasesDefs(cases, i) ==
  IF i > Len(cases) THEN << >> ELSE AllDefs(cases[i][2]) \o CasesDefs(cases, i + 1)
AllDefs(block) ==
  OpsDefs(block.ops)
    \o (CASE block.ctrl.ctrl = "Return" -> << >>
           [] block.ctrl.ctrl = "IfEq" -> AllDefs(block.ctrl.t) \o AllDefs(block.ctrl.f)
           [] block.ctrl.ctrl = "MatchTag" ->
                CasesDefs(block.ctrl.cases, 1)
                  \o (IF block.ctrl.def = << >> THEN << >> ELSE AllDefs(block.ctrl.def[1])))

\* some name is bound in two places of the statements as written
WrittenBlock == block_seq(<< >>, built[1].toks).block
NameReused ==
  \E i, j \in DOMAIN AllDefs(WrittenBlock) : i # j /\ AllDefs(WrittenBlock)[i] = AllDefs(WrittenBlock)[j]

\* C18: in a Func that was built no Var is bound in two places and no Op binds
\* the name of an input, the inputs have the names they were written with,
\* and the allocation map of a synthesis holds one binding for each input and
\* each bound Var of the whole body: no binding replaced another.  The Func
\* returns what the statements as written return.
C18_Deconflicted ==
  (built # << >> /\ built[1].res.ok) =>
    LET f == built[1].res.func
        defs == AllDefs(f.body)
    IN /\ \A i, j \in DOMAIN defs : i # j => defs[i] # defs[j]
       /\ \A i \in DOMAIN defs : \A k \in DOMAIN f.input_params : defs[i] # f.input_params[k]
       /\ f.input_params = IO3
       /\ built[1].frame # << >> =>
             built[1].frame[1].output
               = call_simple(Func("written", IO3, Len(IO3), WrittenBlock), built[1].input[1])[1].output
       /\ built[1].cs # << >> =>
             /\ built[1].cs[1].err = ""
             /\ is_satisfied(built[1].cs[1])
             /\ DOMAIN built[1].cs[1].env
                  = {defs[i] : i \in DOMAIN defs} \cup {IO3[k] : k \in DOMAIN IO3}

\* t and u are bound on several branches each: the map of the synthesis holds
\* them all, with their own values
C18_Witness ==
  /\ built # << >>
  /\ built[1].res.ok
  /\ built[1].cs # << >>
  /\ NameReused
  /\ {"Num.t", "Cons.t", "_.t", "Num.Num.u", "Num.Cons.u", "Num._.u", "Cons.u"}
        \subseteq DOMAIN built[1].cs[1].env
  /\ built[1].cs[1].env["Num.t"].tag.v # built[1].cs[1].env["Cons.t"].tag.v
  /\ built[1].input[1][1] = ConsPair

\* binding a name that is in scope, an input or a Var of the enclosing block,
\* is refused
C18_RefusedWitness ==
  /\ built # << >>
  /\ ~built[1].res.ok
  /\ built[1].toks # << >>
  /\ ~BadPath(built[1].toks, 3)
  /\ Head(built[1].toks).k = "match"
  /\ Len(built[1].toks) = 2
  /\ Len(Head(built[1].toks).cases) = 1
  /\ Head(Head(built[1].toks).cases[1][2]).k = "let"
  /\ Head(Head(built[1].toks).cases[1][2]).op.tgt = "expr_in"

\* ------------------------------------------------------------------------
\* Construction and deconstruction
\* ------------------------------------------------------------------------
\* the Func in the laboratory builds a pointer and takes it apart at once
ConsDecons ==
  /\ lab_func # 0
  /\ lab_frame # << >>
  /\ Len(LabFunc.body.ops) = 2
  /\ LabFunc.body.ops[1].op \in {"Cons2", "Cons3", "Cons4"}
  /\ LabFunc.body.ops[2].op \in {"Decons2", "Decons3", "Decons4"}
  /\ LabFunc.body.ops[2].img = LabFunc.body.ops[1].img
ConsArgs == GetMany(BindMany(<< >>, LabFunc.input_params, lab_frame[1].input),
                    LabFunc.body.ops[1].preimg)
\* the slots consumed by the given Op
ConsumedBy(sys, op) == {k \in DOMAIN sys.consumed : sys.consumed[k].op = op}

\* C19: deconstructing the pointer built by Cons2, Cons3 or Cons4 from two,
\* three or four pointers under any tag yields those pointers; in the circuit
\* a Decons on the concrete path consumes one slot, binds its outputs to the
\* (tag, hash) pairs of the preimage of that slot, and constrains the image of
\* the slot to equal the hash of the deconstructed pointer.
C19_ConsDeconsRoundTrip ==
  /\ (lab_func # 0 /\ lab_input # << >> /\ lab_cs = << >>
        /\ Len(LabFunc.body.ops) = 2 /\ LabFunc.body.ops[1].op \in {"Cons2", "Cons3", "Cons4"})
       => lab_frame # << >>
  /\ (ConsDecons /\ ~lab_frame[1].blank)
       => SubSeq(lab_frame[1].output, 1, Len(ConsArgs)) = ConsArgs
  /\ (ConsDecons /\ ~lab_frame[1].blank /\ lab_cs # << >>) =>
       LET sys == lab_cs[1]
           decons == LabFunc.body.ops[2]
           n == Len(decons.preimg)
       IN /\ sys.err = ""
          /\ Cardinality(ConsumedBy(sys, decons)) = 1
          /\ \A k \in ConsumedBy(sys, decons) :
               LET e == sys.consumed[k]
                   sl == sys.slots[e.typ][e.idx + 1]
               IN /\ e.typ = ConsSlot(decons.op)
                  /\ e.premise
                  /\ Len(sl.preimg) = 2 * n
                  /\ \A i \in 1..n :
                       sys.env[decons.preimg[i]]
                         = AllocatedPtr(sl.preimg[2 * i - 1], sl.preimg[2 * i])
                  /\ \E c \in DOMAIN sys.cons :
                       /\ sys.cons[c].kind = "implies_equal"
                       /\ sys.cons[c].ids = <<0, Pol(BConst(TRUE)),
                                              sys.env[decons.img].hash.id, sl.img.id>>
                  /\ \E c \in DOMAIN sys.cons :
                       /\ sys.cons[c].kind = "hash"
                       /\ sys.cons[c].ids = NumIds(sl.preimg) \o <<sl.img.id>>
                  /\ is_satisfied(sys)
                  /\ [i \in 1..(2 * n) |-> sl.preimg[i].v] = Components(ConsArgs)

\* a pointer built from four pointers under a continuation tag was taken
\* apart, and the circuit of the Frame is satisfied
C19_Witness ==
  /\ ConsDecons
  /\ ~lab_frame[1].blank
  /\ lab_cs # << >>
  /\ LabFunc.body.ops[2].op = "Decons4"
  /\ LabFunc.body.ops[1].tag = "Tail"
  /\ lab_frame[1].input[1] = ConsPair
  /\ lab_frame[1].output = <<ConsPair, lab_frame[1].input[2], lab_frame[1].input[3], ConsPair>>
  /\ lab_cs[1].err = ""
  /\ is_satisfied(lab_cs[1])

\* the same for two pointers
C19_PairWitness ==
  /\ ConsDecons
  /\ ~lab_frame[1].blank
  /\ lab_cs # << >>
  /\ LabFunc.body.ops[2].op = "Decons2"
  /\ lab_frame[1].output[1] = lab_frame[1].input[1]
  /\ lab_frame[1].output[2] = lab_frame[1].input[2]
  /\ lab_cs[1].err = ""

\* ------------------------------------------------------------------------
\* Commitments
\* ------------------------------------------------------------------------
\* the Func in the laboratory hides and opens at once; its secret and payload
HideOpen ==
  /\ lab_func # 0
  /\ Len(LabFunc.body.ops) = 2
  /\ LabFunc.body.ops[1].op = "Hide"
  /\ LabFunc.body.ops[2].op = "Open"
  /\ LabFunc.body.ops[2].comm = LabFunc.body.ops[1].tgt
HideArgs(input) ==
  GetMany(BindMany(<< >>, LabFunc.input_params, input),
          <<LabFunc.body.ops[1].sec, LabFunc.body.ops[1].pay>>)
\* the constraint system holds: on the concrete path, a = b
Tied(sys, a, b) ==
  \E c \in DOMAIN sys.cons :
    /\ sys.cons[c].kind = "implies_equal"
    /\ sys.cons[c].ids = <<0, Pol(BConst(TRUE)), a.id, b.id>>

C20_NotNumWitness ==
  /\ HideOpen
  /\ lab_input # << >>
  /\ HideArgs(lab_input[1])[1].tag # to_field("Num")
  /\ lab_frame = << >>

\* ------------------------------------------------------------------------
\* Calls and coprocessors off the concrete path
\* ------------------------------------------------------------------------
\* the Func in the laboratory has its only Call or coprocessor Op at the head
\* of its Num branch, and has been synthesized
NumBranchOp ==
  /\ lab_func # 0
  /\ lab_cs # << >>
  /\ LabFunc.body.ops = << >>
  /\ LabFunc.body.ctrl.ctrl = "MatchTag"
  /\ LabFunc.body.ctrl.v = "expr_in"
  /\ Len(LabFunc.body.ctrl.cases) = 1
  /\ LabFunc.body.ctrl.cases[1][1] = "Num"
  /\ LabFunc.body.ctrl.cases[1][2].ops # << >>
  /\ LabFunc.body.ctrl.cases[1][2].ops[1].op \in {"Call", "Cproc"}
BranchOp == LabFunc.body.ctrl.cases[1][2].ops[1]
OffPath == lab_frame[1].blank \/ lab_frame[1].input[1].tag # to_field("Num")
\* the output Vars of the Op are bound to variables of its own that hold the
\* dummy pointer
BoundToDummies(sys, out) ==
  \A i \in DOMAIN out :
    /\ out[i] \in DOMAIN sys.env
    /\ sys.env[out[i]].tag.id > sys.body_start
    /\ sys.env[out[i]].hash.id = sys.env[out[i]].tag.id + 1
    /\ sys.env[out[i]].tag.v = ZDummy.tag
    /\ sys.env[out[i]].hash.v = ZDummy.val
    /\ sys.aux[sys.env[out[i]].tag.id] = ZDummy.tag
    /\ sys.aux[sys.env[out[i]].hash.id] = ZDummy.val
\* the calls of a Frame that synthesis has replayed
CallsReplayed ==
  /\ lab_func # 0
  /\ lab_cs # << >>
  /\ lab_cs[1].err = ""
  /\ (lab_frame[1].blank \/ lab_frame[1] \in {call_simple(LabFuncs[lab_func].donor, i)[1] :
                                                i \in {j \in LabInputs :
                                                  call_simple(LabFuncs[lab_func].donor, j) # << >>}})

\* C21 as stated: on a virtual path or in a blank Frame, Call and coprocessor
\* Ops, with or without a circuit, bind their outputs to dummy pointers.
C21_AllDummies ==
  (NumBranchOp /\ OffPath) =>
     /\ lab_cs[1].err = ""
     /\ BoundToDummies(lab_cs[1], BranchOp.out)

\* C21: on a virtual path or in a blank Frame, a Call and a coprocessor Op
\* without circuit bind their outputs to dummy pointers, and a coprocessor Op
\* with a circuit binds them to what its circuit yields; none of them reads a
\* hint (the Frame has none for them) nor compares its declared output arity
\* with one, and the call-hint index stays where it is.  Only on the concrete
\* path of a Frame that is not blank are hints read, the call-hint index
\* advancing by one for each concrete Call (the Call itself, and the Call its
\* callee makes when handed a Cons).
C21_DummiesOffPath ==
  /\ (NumBranchOp /\ OffPath) =>
       LET sys == lab_cs[1]
           op == BranchOp
       IN /\ sys.err = ""
          /\ lab_frame[1].hints.call_outputs = << >>
          /\ lab_frame[1].hints.cproc_outputs = << >>
          /\ sys.call_idx = 0
          /\ IF op.op = "Cproc" /\ lang[op.sym].has_circuit
             THEN /\ sys.env[op.out[1]].tag.v = to_field("Num")
                  /\ sys.env[op.out[1]].hash.v
                       = FAdd(FMul(sys.env[op.inp[1]].hash.v, sys.env[op.inp[1]].hash.v),
                              sys.env[op.inp[2]].hash.v)
                  /\ sys.env[op.out[2]] = sys.env[op.inp[3]]
                  /\ sys.env[op.out[3]] = sys.env[op.inp[4]]
             ELSE BoundToDummies(sys, op.out)
  /\ (NumBranchOp /\ ~OffPath /\ BranchOp.op = "Call" /\ lab_cs[1].err = "")
       => lab_cs[1].call_idx = IF lab_frame[1].input[2].tag = to_field("Cons") THEN 2 ELSE 1
  /\ CallsReplayed =>
       lab_cs[1].call_idx = IF lab_frame[1].blank THEN 0
                            ELSE Len(lab_frame[1].hints.call_outputs)

\* a Call that declares three outputs of a Func that returns two, on a virtual
\* path: synthesized without error, the three outputs dummies
C21_Witness ==
  /\ NumBranchOp
  /\ ~lab_frame[1].blank
  /\ lab_frame[1].input[1].tag # to_field("Num")
  /\ BranchOp.op = "Call"
  /\ Len(BranchOp.out) = 3
  /\ lab_cs[1].err = ""
  /\ lab_cs[1].env["q"].hash.v = ZDummy.val

\* a coprocessor without circuit that declares two outputs, in a blank Frame
C21_BlankWitness ==
  /\ NumBranchOp
  /\ lab_frame[1].blank
  /\ BranchOp.op = "Cproc"
  /\ Len(BranchOp.out) = 2
  /\ lab_cs[1].err = ""

\* two concrete Calls, the second on a branch: the index ends at two
C21_ConcreteWitness ==
  /\ CallsReplayed
  /\ ~lab_frame[1].blank
  /\ lab_cs[1].call_idx = 2

\* ------------------------------------------------------------------------
\* Division with remainder
\* ------------------------------------------------------------------------
\* the Func in the laboratory ends its Ops with a DivRem64 that has been
\* synthesized on the concrete path; its operands
DivRemDone ==
  /\ lab_func # 0
  /\ lab_cs # << >>
  /\ ~lab_frame[1].blank
  /\ LabFunc.body.ops # << >>
  /\ LabFunc.body.ops[Len(LabFunc.body.ops)].op = "DivRem64"
  /\ lab_cs[1].err = ""
DivRemOp == LabFunc.body.ops[Len(LabFunc.body.ops)]
DivRemA == lab_cs[1].env[DivRemOp.a].hash.v
DivRemB == lab_cs[1].env[DivRemOp.b].hash.v
DivRemQ == lab_cs[1].env[DivRemOp.tgt[1]].hash.v
DivRemR == lab_cs[1].env[DivRemOp.tgt[2]].hash.v
Is64(x) == IsNum(x) /\ x[2] < 2 ^ U64Bits

\* C22: for 64-bit a and b, b not zero, whatever pair (q, r) satisfies the
\* constraints of DivRem64(a, b) on a concrete path is q = a div b and
\* r = a mod b, with r < b.
C22_UniqueDivRem ==
  (DivRemDone /\ Is64(DivRemA) /\ Is64(DivRemB) /\ DivRemB # ZERO /\ is_satisfied(lab_cs[1]))
    => /\ DivRemQ = Fe(DivRemA[2] \div DivRemB[2])
       /\ DivRemR = Fe(DivRemA[2] % DivRemB[2])
       /\ DivRemR[2] < DivRemB[2]

\* the pair the synthesizer assigns satisfies the constraints
C22_HonestSatisfied ==
  (DivRemDone /\ lab_cs[1].advice = << >>)
    => /\ is_satisfied(lab_cs[1])
       /\ DivRemQ = Fe(DivRemA[2] \div DivRemB[2])
       /\ DivRemR = Fe(DivRemA[2] % DivRemB[2])

\* the pairs that satisfy the constraints: the quotient and remainder, and,
\* when b divides a, the quotient less one with the remainder b
C22_Solutions ==
  (DivRemDone /\ Is64(DivRemA) /\ Is64(DivRemB) /\ DivRemB # ZERO /\ is_satisfied(lab_cs[1]))
    => \/ /\ DivRemQ = Fe(DivRemA[2] \div DivRemB[2])
          /\ DivRemR = Fe(DivRemA[2] % DivRemB[2])
       \/ /\ DivRemA[2] % DivRemB[2] = 0
          /\ DivRemA[2] >= DivRemB[2]
          /\ DivRemQ = Fe(DivRemA[2] \div DivRemB[2] - 1)
          /\ DivRemR = DivRemB

\* 6 divided by 3 with q = 1 and r = 3: the constraints are satisfied, for a
\* Frame whose output is (1, 3)
C22_Forged ==
  /\ DivRemDone
  /\ lab_frame[1].output[1].val = Fe(1)
  /\ lab_frame[1].output[2].val = Fe(3)
  /\ DivRemA = Fe(6)
  /\ DivRemB = Fe(3)
  /\ DivRemQ = Fe(1)
  /\ DivRemR = Fe(3)
  /\ is_satisfied(lab_cs[1])

\* ------------------------------------------------------------------------
\* Signed comparison
\* ------------------------------------------------------------------------
\* the Func in the laboratory starts with a Lt that has been synthesized on the
\* concrete path; its operands as residues
LtDone ==
  /\ lab_func # 0
  /\ lab_cs # << >>
  /\ ~lab_frame[1].blank
  /\ LabFunc.body.ops # << >>
  /\ LabFunc.body.ops[1].op = "Lt"
LtA == lab_frame[1].input[1].val[2]
LtB == lab_frame[1].input[2].val[2]
\* a residue above (P - 1) / 2 stands for a negative number
Signed(x) == IF x > (P - 1) \div 2 THEN x - P ELSE x
\* the least significant bit of the double of a residue
DoubleIsOdd(x) == ((2 * x) % P) % 2 = 1

\* C23: for residues a and b the boolean that Lt(a, b) binds on a concrete path
\* is the signed comparison a < b, a residue being negative iff the least
\* significant bit of its double is 1, iff it exceeds (P - 1) / 2; it is
\* (same sign and a - b negative) or (not same sign and a negative); the Op
\* consumes exactly three bit-decomposition slots, whose preimages are the
\* doubles of a, b and a - b.
C23_LtSigned ==
  LtDone =>
    LET sys == lab_cs[1]
        op == LabFunc.body.ops[1]
        a_neg == DoubleIsOdd(LtA)
        b_neg == DoubleIsOdd(LtB)
        d_neg == DoubleIsOdd((LtA + P - LtB) % P)
        same_sign == (a_neg = b_neg)
    IN /\ sys.err = ""
       /\ is_satisfied(sys)
       /\ a_neg = (LtA > (P - 1) \div 2)
       /\ b_neg = (LtB > (P - 1) \div 2)
       /\ sys.env[op.tgt].v = (Signed(LtA) < Signed(LtB))
       /\ sys.env[op.tgt].v = ((same_sign /\ d_neg) \/ (~same_sign /\ a_neg))
       /\ sys.aux[sys.env[op.tgt].id] = sys.env[op.tgt].v
       /\ Cardinality(ConsumedBy(sys, op)) = 3
       /\ \A k \in ConsumedBy(sys, op) : sys.consumed[k].typ = "BitDecomp"
       /\ sys.next_slot = SlotsCounter(0, 0, 0, 0, 3)
       /\ [i \in 1..3 |-> sys.slots["BitDecomp"][i].preimg[1].v]
            = <<Fe(2 * LtA), Fe(2 * LtB), Fe(2 * (LtA + P - LtB))>>
       /\ lab_frame[1].output[1].val[2] = IF Signed(LtA) < Signed(LtB) THEN LtA ELSE LtB

\* a negative residue is less than a positive one, though greater as a number
C23_Witness ==
  /\ LtDone
  /\ LtA = P - 1
  /\ LtB = 1
  /\ lab_cs[1].err = ""
  /\ lab_cs[1].env["c"].v
  /\ is_satisfied(lab_cs[1])

\* the same sign on both sides of the middle of the field: not less
C23_SameSignWitness ==
  /\ LtDone
  /\ LtA = P - 1
  /\ LtB = (P + 1) \div 2
  /\ lab_cs[1].err = ""
  /\ ~lab_cs[1].env["c"].v

\* ------------------------------------------------------------------------
\* Global constants
\* ------------------------------------------------------------------------
\* the positions of the constraints that pin a variable to a constant
ConstantsOf(sys) == {i \in DOMAIN sys.cons : sys.cons[i].kind = "constant"}
\* the constants of the GlobalAllocator are the first variables allocated
NumGlobals(sys) == Cardinality(DOMAIN sys.g)
UsesGlobals == lab_func # 0 /\ LabFunc.name = "use_globals" /\ lab_cs # << >>

\* C24 as stated: within one synthesis each distinct field value is allocated
\* as a constant at most once, however many Ops use it, and synthesis never
\* ends in "Global allocation not found".
C24_ConstantsOnce ==
  lab_cs # << >> =>
    LET sys == lab_cs[1]
    IN /\ sys.err # "Global allocation not found"
       /\ \A i, j \in ConstantsOf(sys) :
            sys.cons[i].consts = sys.cons[j].consts => i = j

\* C24, amended: the GlobalAllocator allocates each distinct field value at
\* most once, however many Ops look it up (the circuit of a coprocessor may
\* allocate constants of its own), and no constant that the walk of the Func
\* looks up is missing from what alloc_globals allocated: synthesis never ends
\* in "Global allocation not found".
C24_GlobalsOnce ==
  lab_cs # << >> =>
    LET sys == lab_cs[1]
    IN /\ sys.err # "Global allocation not found"
       /\ sys.g = alloc_globals(LabFunc, SynthInit).g
       /\ \A f, h \in DOMAIN sys.g : sys.g[f].id = sys.g[h].id => f = h
       /\ \A f \in DOMAIN sys.g :
            /\ sys.g[f].v = f
            /\ sys.aux[sys.g[f].id] = f
            /\ Cardinality({i \in ConstantsOf(sys) : sys.cons[i].consts = <<f>>
                                                      /\ sys.cons[i].ids[1] <= NumGlobals(sys)}) = 1
            /\ \E i \in ConstantsOf(sys) : sys.cons[i].ids = <<sys.g[f].id>>
                                             /\ sys.cons[i].consts = <<f>>
       /\ Cardinality({i \in ConstantsOf(sys) : sys.cons[i].ids[1] <= NumGlobals(sys)})
            = NumGlobals(sys)

\* the Func that uses 4, 0, 1 and the zero-hash several times each, as tags
\* and as values: nine constants for seventeen uses
C24_Witness ==
  /\ UsesGlobals
  /\ lab_cs[1].err = ""
  /\ is_satisfied(lab_cs[1])
  /\ DOMAIN lab_cs[1].g =
       {ZERO, ONE, Fe(4), Hash8(Zeros(8)), to_field("Outermost"), to_field("Terminal"),
        to_field("Char"), to_field("Cons"), to_field("Sym")}
  /\ lab_cs[1].env["four"] = lab_cs[1].env["four2"]
  /\ lab_cs[1].env["four"].tag = lab_cs[1].env["four"].hash
  /\ lab_cs[1].env["out"].hash = lab_cs[1].env["term"].hash
  /\ lab_cs[1].env["zero"].hash = lab_cs[1].env["nil"].hash
  /\ lab_cs[1].env["q"].hash.v = ONE

\* the Num tag is allocated by alloc_globals for the Add and once more by the
\* circuit of the coprocessor
C24_TwiceWitness ==
  /\ lab_func # 0
  /\ LabFunc.name = "cproc_add"
  /\ lab_cs # << >>
  /\ lab_cs[1].err = ""
  /\ Cardinality({i \in ConstantsOf(lab_cs[1]) : lab_cs[1].cons[i].consts = <<to_field("Num")>>}) = 2
  /\ DOMAIN lab_cs[1].g = {to_field("Num")}

\* ------------------------------------------------------------------------
\* Replay of the coprocessor hints
\* ------------------------------------------------------------------------
\* a Frame as interpreted has been synthesized on its concrete path
ReplayDone ==
  /\ lab_func # 0
  /\ lab_cs # << >>
  /\ ~lab_frame[1].blank
  /\ lab_frame = call_simple(LabFuncs[lab_func].donor, lab_input[1])
  /\ LabFuncs[lab_func].donor = LabFunc

\* C25: in the synthesis of a concrete Frame the k-th coprocessor Op on the
\* concrete path, counted across blocks, branches and called Funcs, replays
\* entry k of the recorded coprocessor hints: no two coprocessor Ops replay
\* the same entry and none is skipped.
C25_ReplayInOrder ==
  ReplayDone =>
    /\ \A k \in DOMAIN lab_cs[1].replays : lab_cs[1].replays[k] = k
    /\ lab_cs[1].err = "" => Len(lab_cs[1].replays) = Len(lab_frame[1].hints.cproc_outputs)

\* the coprocessor Op after the Call replays entry 1, which the Op of the
\* callee has replayed, where the interpreter has recorded two entries
C25_SameEntryTwice ==
  /\ ReplayDone
  /\ LabFunc.name = "call_then_cproc"
  /\ Len(lab_frame[1].hints.cproc_outputs) = 2
  /\ lab_frame[1].hints.cproc_outputs[1] # lab_frame[1].hints.cproc_outputs[2]
  /\ lab_cs[1].replays = <<1, 1>>

\* with a coprocessor that has a circuit the synthesis of the Frame fails
C25_HonestFrameRefused ==
  /\ C25_SameEntryTwice
  /\ LabFunc.body.ops[2].sym = "dumb"
  /\ lab_cs[1].err = "error"

\* with a coprocessor without circuit the Op binds the callee's outputs and
\* the system that results does not hold
C25_WrongValuesBound ==
  /\ C25_SameEntryTwice
  /\ LabFunc.body.ops[2].sym = "hinted"
  /\ lab_cs[1].err = ""
  /\ lab_cs[1].env["x"].hash.v = lab_frame[1].hints.cproc_outputs[1][1].val
  /\ ~is_satisfied(lab_cs[1])

\* without a Call before it, the second coprocessor Op replays the second entry
C25_InOrderWitness ==
  /\ ReplayDone
  /\ LabFunc.name = "cproc_branch"
  /\ lab_cs[1].err = ""
  /\ lab_cs[1].replays = <<1, 2>>


\* ------------------------------------------------------------------------
\* MultiFrame::from_frames, FoldingConfig::NIVC (lem/multiframe.rs)
\* ------------------------------------------------------------------------
MaxNivcFrames == 4
MaxPc == 2

\* a Frame of the evaluation: the circuit it belongs to and the states it links
NivcFrame(pc, input, output) == [pc |-> pc, input |-> input, output |-> output]

\* the frame sequences handed to from_frames: frame i leads from state i - 1
\* to state i, under any circuit index
NivcFrameSeqs ==
  UNION {{[i \in 1..n |-> NivcFrame(pcs[i], i - 1, i)] : pcs \in [1..n -> 0..MaxPc]} :
           n \in 0..MaxNivcFrames}

\* as inner_frames_loop, but an incoming frame of another circuit is taken too
RECURSIVE inner_frames_loop_no_break(_, _, _, _, _)
inner_frames_loop_no_break(frames, chunk_start_idx_saved, i, reduction_count, st) ==
  IF i >= reduction_count THEN st
  ELSE Let([current_frame_idx \in {chunk_start_idx_saved + i} |->
       Let([st1 \in {[inner_frames |-> Append(st.inner_frames, frames[current_frame_idx + 1]),
                      chunk_start_idx |-> current_frame_idx + 1,
                      next_pc |-> st.next_pc]} |->
         IF st1.chunk_start_idx < Len(frames)
         THEN inner_frames_loop_no_break(frames, chunk_start_idx_saved, i + 1, reduction_count,
                [st1 EXCEPT !.next_pc = frames[st1.chunk_start_idx + 1].pc])
         ELSE st1])])

\* for i in 0..reduction_count: fill inner_frames until there are no more
\* frames or the next frame has a pc that is not 0
RECURSIVE inner_frames_loop(_, _, _, _, _)
inner_frames_loop(frames, chunk_start_idx_saved, i, reduction_count, st) ==
  IF i >= reduction_count THEN st
  ELSE Let([current_frame_idx \in {chunk_start_idx_saved + i} |->
       Let([st1 \in {[inner_frames |-> Append(st.inner_frames, frames[current_frame_idx + 1]),
                      chunk_start_idx |-> current_frame_idx + 1,
                      next_pc |-> st.next_pc]} |->
         IF st1.chunk_start_idx < Len(frames)
         THEN Let([st2 \in {[st1 EXCEPT !.next_pc = frames[st1.chunk_start_idx + 1].pc]} |->
                IF st2.next_pc # 0 THEN st2
                ELSE inner_frames_loop(frames, chunk_start_idx_saved, i + 1,
                                       reduction_count, st2)])
         ELSE st1])])

\* lurk_step.call_simple(&output, store, lang, 0) where the assert on it holds:
\* a frame of circuit 0 that leaves the state as it is
nivc_padding_frame(output) == NivcFrame(0, output, output)

\* inner_frames.resize(reduction_count, padding_frame)
resize(inner_frames, reduction_count, pad) ==
  inner_frames \o [i \in 1..(reduction_count - Len(inner_frames)) |-> pad]

NivcMultiFrame(input, output, frames_to_add, reduction_count_to_use, pc, next_pc) ==
  [input |-> input, output |-> output, frames |-> frames_to_add,
   reduction_count |-> reduction_count_to_use, pc |-> pc, next_pc |-> next_pc]

\* the branch of the loop body for a first frame of circuit 0
nivc_lurk_chunk(frames, start, reduction_count) ==
      Let([first_frame \in {frames[start + 1]} |->
      Let([st \in {inner_frames_loop(frames, start, 0, reduction_count,
                     [inner_frames |-> << >>, chunk_start_idx |-> start, next_pc |-> 0])} |->
      Let([output \in {st.inner_frames[Len(st.inner_frames)].output} |->
     [chunk_start_idx |-> st.chunk_start_idx,
      padded |-> Len(st.inner_frames) < reduction_count,
      mf |-> NivcMultiFrame(first_frame.input, output,
               resize(st.inner_frames, reduction_count, nivc_padding_frame(output)),
               reduction_count, 0, st.next_pc)]])])])

\* the branch of the loop body for a first frame of another circuit
nivc_cproc_chunk(frames, start) ==
      Let([first_frame \in {frames[start + 1]} |->
     [chunk_start_idx |-> start + 1,
      padded |-> FALSE,
      mf |-> NivcMultiFrame(first_frame.input, first_frame.output, <<first_frame>>,
               1, first_frame.pc, 0)]])

\* from_frames is called
NivcFromFrames(frames, reduction_count) ==
  /\ nivc_status = "idle"
  /\ nivc_frames' = frames
  /\ nivc_reduction_count' = reduction_count
  /\ chunk_start_idx' = 0
  /\ nivc_multi_frames' = << >>
  /\ nivc_status' = "loop"
  /\ UNCHANGED <<synthvars, slotvars, mfvars, labvars, buildvars, evalvars>>

\* the body of while chunk_start_idx < frames.len()
nivc_chunk(frames, start, reduction_count) ==
  IF frames[start + 1].pc = 0 THEN nivc_lurk_chunk(frames, start, reduction_count)
  ELSE nivc_cproc_chunk(frames, start)

\* one turn of the loop. Whether the step taken for the padding frame leaves
\* the state as it is depends on the step function of the Lang; if it does
\* not, the assert aborts the call
NivcChunk(reflexive) ==
  /\ nivc_status = "loop"
  /\ chunk_start_idx < Len(nivc_frames)
  /\ IF nivc_chunk(nivc_frames, chunk_start_idx, nivc_reduction_count).padded /\ ~reflexive
     THEN /\ nivc_status' = "panic"
          /\ UNCHANGED <<chunk_start_idx, nivc_multi_frames>>
     ELSE /\ chunk_start_idx' =
               nivc_chunk(nivc_frames, chunk_start_idx, nivc_reduction_count).chunk_start_idx
          /\ nivc_multi_frames' =
               Append(nivc_multi_frames,
                      nivc_chunk(nivc_frames, chunk_start_idx, nivc_reduction_count).mf)
          /\ UNCHANGED nivc_status
  /\ UNCHANGED <<nivc_frames, nivc_reduction_count>>
  /\ UNCHANGED <<synthvars, slotvars, mfvars, labvars, buildvars, evalvars>>

\* the loop ends and multi_frames is returned
NivcReturn ==
  /\ nivc_status = "loop"
  /\ ~(chunk_start_idx < Len(nivc_frames))
  /\ nivc_status' = "done"
  /\ UNCHANGED <<nivc_frames, nivc_reduction_count, chunk_start_idx, nivc_multi_frames>>
  /\ UNCHANGED <<synthvars, slotvars, mfvars, labvars, buildvars, evalvars>>

NivcDrop ==
  /\ nivc_status \in {"done", "panic"}
  /\ nivc_frames' = << >>
  /\ nivc_reduction_count' = 1
  /\ chunk_start_idx' = 0
  /\ nivc_multi_frames' = << >>
  /\ nivc_status' = "idle"
  /\ UNCHANGED <<synthvars, slotvars, mfvars, labvars, buildvars, evalvars>>

NextNivc ==
  \/ \E frames \in NivcFrameSeqs, reduction_count \in 1..MaxReduction :
       NivcFromFrames(frames, reduction_count)
  \/ \E reflexive \in BOOLEAN : NivcChunk(reflexive)
  \/ NivcReturn
  \/ NivcDrop

SpecNivc == Init /\ [][NextNivc]_vars

\* ------------------------------------------------------------------------
\* The step function on stopped, self-evaluating and operator states
\* ------------------------------------------------------------------------
EvalDone == ev_input # << >> /\ ev_frame # << >>
StopTags == {to_field("Terminal"), to_field("Error")}
Stopped(state) == state[3].tag \in StopTags
SelfEvaluatingTags ==
  {to_field(t) : t \in {"Nil", "Fun", "Num", "Str", "Char", "Comm", "U64", "Key"}}
BinopSymbols == {BinopTable[i][1] : i \in DOMAIN BinopTable}
BinopTag(h) == BinopTable[CHOOSE i \in DOMAIN BinopTable : BinopTable[i][1] = h][2]

\* C26: the step function returns a state whose continuation is tagged
\* Terminal or Error as it is, so every step after an evaluation has stopped
\* leaves the state unchanged, and the padding frame taken from the output of
\* such a step has its input equal to its output.
C26_StoppedStateFixed ==
  (ev_input # << >> /\ Stopped(ev_input[1])) =>
     /\ ev_frame # << >>
     /\ ev_frame[1].output = ev_input[1]
     /\ LET pad == padding_frame(eval_step, ev_frame)
        IN  pad # << >> /\ pad[1].input = pad[1].output

\* an evaluation that reached Terminal in its first step and was stepped again
C26_Witness ==
  /\ EvalDone
  /\ ev_steps = 2
  /\ ev_input[1][3] = PNull("Terminal")
  /\ ev_frame[1].output = ev_input[1]

\* the same for an evaluation that ended in Error
C26_ErrorWitness ==
  /\ EvalDone
  /\ ev_steps = 3
  /\ ev_input[1][3] = PNull("Error")
  /\ ev_frame[1].output = ev_input[1]

\* C29: one step from (expr, env, Outermost) with expr tagged Nil, Fun, Num,
\* Str, Char, Comm, U64 or Key yields (expr, env, Terminal); with the Nil
\* environment a symbol other than nil and t yields the Error continuation.
C29_SelfEvaluating ==
  (ev_input # << >> /\ ev_steps = 1 /\ ev_input[1][3] = PNull("Outermost")) =>
     LET expr == ev_input[1][1]
         env == ev_input[1][2]
     IN  /\ expr.tag \in SelfEvaluatingTags =>
              /\ ev_frame # << >>
              /\ ev_frame[1].output = <<expr, env, PNull("Terminal")>>
         /\ (expr.tag = to_field("Sym") /\ expr \notin {PSym("nil"), PSym("t")}
               /\ env = PNull("Nil")) =>
              /\ ev_frame # << >>
              /\ ev_frame[1].output[3] = PNull("Error")

\* a function in a non-empty environment has been stepped to Terminal
C29_Witness ==
  /\ EvalDone
  /\ ev_steps = 1
  /\ ev_input[1][1].tag = to_field("Fun")
  /\ ev_input[1][2] # PNull("Nil")
  /\ ev_input[1][3] = PNull("Outermost")
  /\ ev_frame[1].output = <<ev_input[1][1], ev_input[1][2], PNull("Terminal")>>

\* an unbound symbol in the empty environment has been stepped to Error
C29_UnboundWitness ==
  /\ EvalDone
  /\ ev_steps = 1
  /\ ev_input[1] = <<PSym("y"), PNull("Nil"), PNull("Outermost")>>
  /\ ev_frame[1].output[3] = PNull("Error")

\* C30: reduce on a Cons whose head is a binary-operator symbol and which has
\* at least two arguments returns the first argument, the environment and the
\* continuation Binop(operator of choose_binop, env, remaining arguments,
\* previous continuation), and not the Error continuation.
C30_BinopContinuation ==
  \A h \in BinopSymbols, args \in EvArgs :
    (/\ ev_input # << >>
     /\ Len(args) >= 2
     /\ ev_input[1][1] = EvList(<<PSym(h)>> \o args)
     /\ ~Stopped(ev_input[1])) =>
       /\ ev_reduced # << >>
       /\ ev_reduced[1].output =
            <<args[1], ev_input[1][2],
              PCons4("Binop", PNull(BinopTag(h)), ev_input[1][2],
                     EvList(Tail(args)), ev_input[1][3]),
              PNull("Return")>>

\* ------------------------------------------------------------------------
\* from_frames in NIVC mode: chunks and circuit indices
\* ------------------------------------------------------------------------
NivcReturned == nivc_status = "done"

\* f pads a chunk whose last frame has this output
IsPaddingOf(f, output) == f.pc = 0 /\ f.input = output /\ f.output = output

\* the MultiFrames hold the frames, in order and each once, every MultiFrame
\* a run of them followed by nothing but padding
RECURSIVE NivcCovers(_, _)
NivcCovers(mfs, frames) ==
  IF mfs = << >> THEN frames = << >>
  ELSE \E k \in 1..Len(mfs[1].frames) :
         /\ k <= Len(frames)
         /\ SubSeq(mfs[1].frames, 1, k) = SubSeq(frames, 1, k)
         /\ \A j \in (k + 1)..Len(mfs[1].frames) : IsPaddingOf(mfs[1].frames[j], frames[k].output)
         /\ NivcCovers(Tail(mfs), SubSeq(frames, k + 1, Len(frames)))

NivcWellFormed(mf) ==
  /\ \A j \in DOMAIN mf.frames : mf.frames[j].pc = mf.pc
  /\ mf.input = mf.frames[1].input
  /\ mf.pc = 0 => /\ Len(mf.frames) = nivc_reduction_count
                  /\ mf.reduction_count = nivc_reduction_count
  /\ mf.pc # 0 => /\ Len(mf.frames) = 1
                  /\ mf.reduction_count = 1

\* C27: in NIVC mode from_frames ends for every finite frame sequence (each turn
\* of its loop moves chunk_start_idx forward, and never past the end); the
\* frames of the MultiFrames it returns, padding left out, are the input
\* frames in order and each once; every MultiFrame holds frames of one pc: a
\* MultiFrame of pc 0 exactly reduction_count of them after padding, a frame
\* of another pc a MultiFrame of its own with reduction_count 1.
C27_NivcChunks ==
  /\ [](nivc_status \in {"loop", "done"} =>
          /\ chunk_start_idx <= Len(nivc_frames)
          /\ NivcCovers(nivc_multi_frames, SubSeq(nivc_frames, 1, chunk_start_idx))
          /\ \A i \in DOMAIN nivc_multi_frames : NivcWellFormed(nivc_multi_frames[i])
          /\ NivcReturned => chunk_start_idx = Len(nivc_frames))
  /\ [][(nivc_status = "loop" /\ nivc_status' = "loop") =>
          chunk_start_idx' > chunk_start_idx]_vars

\* from_frames has returned; a chunk of circuit 0 was cut short by a frame of
\* another circuit and padded, and a later chunk was filled
C27_Witness ==
  /\ NivcReturned
  /\ nivc_reduction_count = 2
  /\ Len(nivc_frames) = 4
  /\ Len(nivc_multi_frames) = 3
  /\ nivc_multi_frames[1].pc = 0
  /\ nivc_multi_frames[1].frames = <<nivc_frames[1], NivcFrame(0, 1, 1)>>
  /\ nivc_multi_frames[2].pc # 0
  /\ nivc_multi_frames[2].frames = <<nivc_frames[2]>>
  /\ nivc_multi_frames[3].frames = <<nivc_frames[3], nivc_frames[4]>>

\* C28: for every MultiFrame that from_frames returns in NIVC mode, next_pc is
\* the pc of the MultiFrame that follows it, and 0 for the last one, also
\* when a frame of pc other than 0 is directly followed by another such frame.
C28_NextPcChains ==
  NivcReturned =>
    \A i \in DOMAIN nivc_multi_frames :
      nivc_multi_frames[i].next_pc =
        IF i < Len(nivc_multi_frames) THEN nivc_multi_frames[i + 1].pc ELSE 0

\* what does hold: next_pc is right for every MultiFrame of circuit 0, and is
\* 0 for every MultiFrame of another circuit, whatever follows
C28_LurkNextPc ==
  NivcReturned =>
    \A i \in DOMAIN nivc_multi_frames :
      IF nivc_multi_frames[i].pc = 0
      THEN nivc_multi_frames[i].next_pc =
             IF i < Len(nivc_multi_frames) THEN nivc_multi_frames[i + 1].pc ELSE 0
      ELSE nivc_multi_frames[i].next_pc = 0

\* two frames of other circuits in a row: the first one's next_pc is 0
C28_CprocThenCproc ==
  /\ NivcReturned
  /\ \E i \in DOMAIN nivc_multi_frames :
       /\ i < Len(nivc_multi_frames)
       /\ nivc_multi_frames[i].pc # 0
       /\ nivc_multi_frames[i + 1].pc # 0
       /\ nivc_multi_frames[i].next_pc = 0

====
